---- MODULE Spec2Model ----
(***************************************************************************)
(* A model of the Cflat type checker: the type representation and its      *)
(* nil-compatible equality (ast.hpp / ast.cpp), the expression, statement  *)
(* and top-level typing rules (ast.cpp), and Program::check run as a       *)
(* sequence of phases.                                                     *)
(***************************************************************************)
EXTENDS Naturals, Integers, Sequences, FiniteSets, TLC

VARIABLES
    t1, t2,         \* the two arguments handed to typeEq / pickNonNil
    eqRes,          \* result of typeEq(t1, t2)
    picked,         \* result of pickNonNil(t1, t2)
    tpc,            \* position of the type-helper run: "input", "compared", "picked"
    prog,           \* the Program built from the input (read-only once built)
    pc,             \* position in Program::check: "names", "main", "structs",
                    \* "functions", "done"
    initial_gamma,  \* Gamma built by construct_gamma
    initial_delta,  \* Delta built by construct_delta
    si, fi,         \* next struct / function of the two checking loops
    verdict,        \* what the driver printed: "running", "valid", "invalid", or
                    \* "none" when it ended without a verdict
    msg,            \* the TypeError message printed after "invalid: "
    doc,            \* the content of the input file
    stdout, stderr, \* the lines written to the two streams
    exitCode,       \* the driver's exit status, -1 while it runs
    run,            \* 1 in the first run on the input, 2 in the second
    firstRun,       \* what the first run wrote and returned
    argOrder        \* order in which the build evaluates the arguments of a
                    \* call: "ltr" or "rtl"

typeVars == <<t1, t2, eqRes, picked, tpc>>
progVars == <<prog, pc, initial_gamma, initial_delta, si, fi, verdict, msg>>
driverVars == <<doc, stdout, stderr, exitCode, run, firstRun, argOrder>>
vars == <<typeVars, progVars, driverVars>>

(***************************************************************************)
(* Bounds                                                                  *)
(***************************************************************************)
\* Largest number of constructors in a type handed to typeEq / pickNonNil.
MaxNodes == 3

\* Largest number of top-level definitions (structs + externs + functions) in
\* the programs that vary the top-level names.
MaxDefs == 3

\* Largest number of parameters, and of locals, in the functions that vary
\* their declarations.
MaxDecls == 2

\* Largest number of arguments in the calls that vary callee and arguments.
MaxArgs == 1

\* Largest number of statement nodes in the function bodies that vary their
\* control flow.
MaxStmtNodes == 3

\* Largest number of statement nodes in the bodies of the programs whose
\* text is handed to the driver.
MaxDriverStmtNodes == 2

\* Largest number of fields of the structs that vary their fields.
MaxFields == 2

\* Struct names occurring in the generated types.
StructNames == {"S", "T"}

(***************************************************************************)
(* Types (ast.hpp): a closed sum of six variants.                          *)
(***************************************************************************)
IntType == [tag |-> "Int"]
NilType == [tag |-> "Nil"]
StructType(n) == [tag |-> "Struct", name |-> n]
ArrayType(et) == [tag |-> "Array", elementType |-> et]
PtrType(pt) == [tag |-> "Ptr", pointeeType |-> pt]
FnType(pts, rt) == [tag |-> "Fn", paramTypes |-> pts, returnType |-> rt]

\* dynamic_cast<const X*>(&t) != nullptr
IsInt(t) == t.tag = "Int"
IsNil(t) == t.tag = "Nil"
IsStruct(t) == t.tag = "Struct"
IsArray(t) == t.tag = "Array"
IsPtr(t) == t.tag = "Ptr"
IsFn(t) == t.tag = "Fn"

RECURSIVE equals(_, _)

\* TypePtrEqual: both pointers are non-null for every type buildType makes,
\* so only the lhs->equals(*rhs) branch is reachable.
TypePtrEqual(lhs, rhs) == equals(lhs, rhs)

IntType_equals(self, other) == IsInt(other)

NilType_equals(self, other) == IsNil(other) \/ IsPtr(other) \/ IsArray(other)

StructType_equals(self, other) ==
    IF IsNil(other) THEN FALSE
    ELSE IF IsStruct(other) THEN self.name = other.name
    ELSE FALSE

ArrayType_equals(self, other) ==
    IF IsNil(other) THEN TRUE
    ELSE IF IsArray(other) THEN TypePtrEqual(self.elementType, other.elementType)
    ELSE FALSE

\* Mutant: a pointer nested inside another type no longer accepts nil.
PtrType_equals_NoNil(self, other) ==
    IF IsPtr(other) THEN TypePtrEqual(self.pointeeType, other.pointeeType)
    ELSE FALSE

\* Mutant: a pointer compares equal to an array of the same element type.
PtrType_equals_Array(self, other) ==
    IF IsNil(other) THEN TRUE
    ELSE IF IsPtr(other) THEN TypePtrEqual(self.pointeeType, other.pointeeType)
    ELSE IF IsArray(other) THEN TypePtrEqual(self.pointeeType, other.elementType)
    ELSE FALSE

PtrType_equals(self, other) ==
    IF IsNil(other) THEN TRUE
    ELSE IF IsPtr(other) THEN TypePtrEqual(self.pointeeType, other.pointeeType)
    ELSE FALSE

FnType_equals(self, other) ==
    IF IsNil(other) THEN FALSE
    ELSE IF IsFn(other) THEN
        IF Len(self.paramTypes) # Len(other.paramTypes) THEN FALSE
        ELSE /\ \A i \in 1..Len(self.paramTypes) :
                    TypePtrEqual(self.paramTypes[i], other.paramTypes[i])
             /\ TypePtrEqual(self.returnType, other.returnType)
    ELSE FALSE

\* Virtual dispatch of Type::equals on the dynamic type of self.
equals(self, other) ==
    CASE IsInt(self) -> IntType_equals(self, other)
      [] IsNil(self) -> NilType_equals(self, other)
      [] IsStruct(self) -> StructType_equals(self, other)
      [] IsArray(self) -> ArrayType_equals(self, other)
      [] IsPtr(self) -> PtrType_equals(self, other)
      [] IsFn(self) -> FnType_equals(self, other)

\* Mutant: nil on the left is compatible with pointers only.
typeEq_NilPtrOnly(a, b) ==
    IF IsNil(a) THEN IsNil(b) \/ IsPtr(b)
    ELSE IF IsNil(b) THEN IsPtr(a) \/ IsArray(a)
    ELSE equals(a, b)

\* typeEq: the arguments are never null (see TypePtrEqual).
typeEq(a, b) ==
    IF IsNil(a) THEN IsNil(b) \/ IsPtr(b) \/ IsArray(b)
    ELSE IF IsNil(b) THEN IsPtr(a) \/ IsArray(a)
    ELSE equals(a, b)

\* Mutant: always the first argument.
pickNonNil_First(a, b) == a

pickNonNil(a, b) == IF ~IsNil(a) THEN a ELSE b

(***************************************************************************)
(* Type::toString (used by the diagnostics).                               *)
(***************************************************************************)
RECURSIVE Type_toString(_), JoinTypes(_, _)

\* FnType::toString's loop: the parameter types separated by ", ".
JoinTypes(ts, i) ==
    IF i > Len(ts) THEN ""
    ELSE Type_toString(ts[i]) \o (IF i = Len(ts) THEN "" ELSE ", ") \o JoinTypes(ts, i + 1)

Type_toString(t) ==
    CASE IsInt(t) -> "int"
      [] IsNil(t) -> "nil"
      [] IsStruct(t) -> "struct(" \o t.name \o ")"
      [] IsArray(t) -> "array(" \o Type_toString(t.elementType) \o ")"
      [] IsPtr(t) -> "ptr(" \o Type_toString(t.pointeeType) \o ")"
      [] IsFn(t) -> "(" \o JoinTypes(t.paramTypes, 1) \o ") -> "
                        \o Type_toString(t.returnType)

(***************************************************************************)
(* AST nodes (ast.hpp).  An optional child (If::ff, Return::exp) is a      *)
(* sequence of length 0 or 1.                                              *)
(***************************************************************************)
Decl(n, t) == [name |-> n, type |-> t]

Id(n) == [kind |-> "Id", name |-> n]
Deref(e) == [kind |-> "Deref", exp |-> e]
ArrayAccess(arr, idx) == [kind |-> "ArrayAccess", array |-> arr, index |-> idx]
FieldAccess(p, f) == [kind |-> "FieldAccess", ptr |-> p, field |-> f]

Val(p) == [kind |-> "Val", place |-> p]
Num(v) == [kind |-> "Num", value |-> v]
NilExp == [kind |-> "Nil"]
Select(g, t, f) == [kind |-> "Select", guard |-> g, tt |-> t, ff |-> f]
UnOp(o, e) == [kind |-> "UnOp", op |-> o, exp |-> e]
BinOp(o, l, r) == [kind |-> "BinOp", op |-> o, left |-> l, right |-> r]
NewSingle(t) == [kind |-> "NewSingle", type |-> t]
NewArray(t, sz) == [kind |-> "NewArray", type |-> t, size |-> sz]
FunCall(c, a) == [callee |-> c, args |-> a]
CallExp(fc) == [kind |-> "CallExp", fun_call |-> fc]

Stmts(ss) == [kind |-> "Stmts", statements |-> ss]
Assign(p, e) == [kind |-> "Assign", place |-> p, exp |-> e]
CallStmt(fc) == [kind |-> "CallStmt", fun_call |-> fc]
If(g, t, f) == [kind |-> "If", guard |-> g, tt |-> t, ff |-> f]
While(g, b) == [kind |-> "While", guard |-> g, body |-> b]
Return(e) == [kind |-> "Return", exp |-> e]
Break == [kind |-> "Break"]
Continue == [kind |-> "Continue"]

StructDef(n, fs) == [name |-> n, fields |-> fs]
Extern(n, pts, rt) == [name |-> n, param_types |-> pts, rettype |-> rt]
FunctionDef(n, ps, rt, ls, b) ==
    [name |-> n, params |-> ps, rettype |-> rt, locals |-> ls, body |-> b]
Program(ss, es, fs) == [structs |-> ss, externs |-> es, functions |-> fs]

(***************************************************************************)
(* Results of the check methods: the returned value, or the TypeError      *)
(* thrown.  A diagnostic carries the message text and the types and names  *)
(* it mentions; the source text of the offending expression, which the     *)
(* code appends for the reader, is left out.                               *)
(***************************************************************************)
Ok(t) == [ok |-> TRUE, type |-> t, msg |-> ""]
TypeError(m) == [ok |-> FALSE, type |-> NilType, msg |-> m]
OkStmt(b) == [ok |-> TRUE, returns |-> b, msg |-> ""]
StmtError(m) == [ok |-> FALSE, returns |-> FALSE, msg |-> m]

\* Gamma / Delta: std::unordered_map as a function on the bound names.
EmptyMap == [n \in {} |-> NilType]
MapPut(m, k, v) == [n \in (DOMAIN m) \cup {k} |-> IF n = k THEN v ELSE m[n]]

(***************************************************************************)
(* Expression and place rules.  Each X_check evaluates its operands in the *)
(* order of the code and hands their results to X_rule, which holds the    *)
(* tests of the rule; an operand that threw ends the rule with its error.  *)
(* A diagnostic is the text of the code's message up to the expression it  *)
(* quotes with toString(): the types and names are kept, the quoted source *)
(* expression is left out.                                                 *)
(***************************************************************************)
RECURSIVE Exp_check(_, _, _), Place_check(_, _, _), FunCall_args(_, _, _, _, _)

Id_check(self, gamma, delta) ==
    IF self.name \in DOMAIN gamma THEN Ok(gamma[self.name])
    ELSE TypeError("id " \o self.name \o " does not exist in this scope")

Num_check(self, gamma, delta) ==
    IF self.value >= 0 THEN Ok(IntType)
    ELSE TypeError("negative number " \o ToString(self.value) \o " is not allowed")

NilExp_check(self, gamma, delta) == Ok(NilType)

Deref_rule(pointee) ==
    IF ~pointee.ok THEN pointee
    ELSE IF IsPtr(pointee.type) THEN Ok(pointee.type.pointeeType)
    ELSE TypeError("non-pointer type " \o Type_toString(pointee.type)
                   \o " for dereference")

Deref_check(self, gamma, delta) == Deref_rule(Exp_check(self.exp, gamma, delta))

\* Mutant: the type of the index is not looked at.
ArrayAccess_rule_AnyIndex(arrType, idxType) ==
    IF ~arrType.ok THEN arrType
    ELSE IF ~idxType.ok THEN idxType
    ELSE IF IsArray(arrType.type) THEN Ok(arrType.type.elementType)
    ELSE TypeError("non-array type " \o Type_toString(arrType.type)
                   \o " for array access")

ArrayAccess_rule(arrType, idxType) ==
    IF ~arrType.ok THEN arrType
    ELSE IF ~idxType.ok THEN idxType
    ELSE IF ~typeEq(idxType.type, IntType)
         THEN TypeError("non-int index type " \o Type_toString(idxType.type)
                        \o " for array access")
    ELSE IF IsArray(arrType.type) THEN Ok(arrType.type.elementType)
    ELSE TypeError("non-array type " \o Type_toString(arrType.type)
                   \o " for array access")

ArrayAccess_check(self, gamma, delta) ==
    ArrayAccess_rule(Exp_check(self.array, gamma, delta),
                     Exp_check(self.index, gamma, delta))

FieldAccess_lookup(sname, field, delta) ==
    IF sname \notin DOMAIN delta
    THEN TypeError("non-existent struct type " \o sname \o " in field access")
    ELSE IF field \notin DOMAIN delta[sname]
    THEN TypeError("non-existent field " \o sname \o "::" \o field \o " in field access")
    ELSE Ok(delta[sname][field])

FieldAccess_rule(self, baseType, delta) ==
    IF ~baseType.ok THEN baseType
    ELSE IF ~IsPtr(baseType.type)
         THEN TypeError("<" \o Type_toString(baseType.type)
                        \o "> is not a struct pointer type in field access")
    ELSE IF ~IsStruct(baseType.type.pointeeType)
         THEN TypeError("pointer type <" \o Type_toString(baseType.type)
                        \o "> does not point to a struct in field access")
    ELSE FieldAccess_lookup(baseType.type.pointeeType.name, self.field, delta)

FieldAccess_check(self, gamma, delta) ==
    FieldAccess_rule(self, Exp_check(self.ptr, gamma, delta), delta)

\* Mutant: the result is the type of the first branch.
Select_rule_FirstBranch(guardType, ttType, ffType) ==
    IF ~guardType.ok THEN guardType
    ELSE IF ~typeEq(guardType.type, IntType)
         THEN TypeError("non-int type " \o Type_toString(guardType.type)
                        \o " for select guard")
    ELSE IF ~ttType.ok THEN ttType
    ELSE IF ~ffType.ok THEN ffType
    ELSE IF ~typeEq(ttType.type, ffType.type)
         THEN TypeError("incompatible types " \o Type_toString(ttType.type) \o " vs "
                        \o Type_toString(ffType.type) \o " in select branches")
    ELSE ttType

Select_rule(guardType, ttType, ffType) ==
    IF ~guardType.ok THEN guardType
    ELSE IF ~typeEq(guardType.type, IntType)
         THEN TypeError("non-int type " \o Type_toString(guardType.type)
                        \o " for select guard")
    ELSE IF ~ttType.ok THEN ttType
    ELSE IF ~ffType.ok THEN ffType
    ELSE IF ~typeEq(ttType.type, ffType.type)
         THEN TypeError("incompatible types " \o Type_toString(ttType.type) \o " vs "
                        \o Type_toString(ffType.type) \o " in select branches")
    ELSE Ok(pickNonNil(ttType.type, ffType.type))

Select_check(self, gamma, delta) ==
    Select_rule(Exp_check(self.guard, gamma, delta),
                Exp_check(self.tt, gamma, delta),
                Exp_check(self.ff, gamma, delta))

UnOp_rule(operandType) ==
    IF ~operandType.ok THEN operandType
    ELSE IF ~typeEq(operandType.type, IntType)
         THEN TypeError("non-int operand type " \o Type_toString(operandType.type)
                        \o " in unary op")
    ELSE Ok(IntType)

UnOp_check(self, gamma, delta) == UnOp_rule(Exp_check(self.exp, gamma, delta))

\* Mutant: Eq and NotEq need typeEq only.
BinOp_rule_AnyEqual(self, leftType, rightType) ==
    IF ~leftType.ok THEN leftType
    ELSE IF ~rightType.ok THEN rightType
    ELSE IF self.op = "Eq" \/ self.op = "NotEq" THEN
        IF ~typeEq(leftType.type, rightType.type)
        THEN TypeError("incompatible types " \o Type_toString(leftType.type) \o " vs "
                       \o Type_toString(rightType.type) \o " in binary op")
        ELSE Ok(IntType)
    ELSE
        IF ~typeEq(leftType.type, IntType)
        THEN TypeError("non-int type " \o Type_toString(leftType.type)
                       \o " for left operand of binary op")
        ELSE IF ~typeEq(rightType.type, IntType)
        THEN TypeError("right operand of binary op has type "
                       \o Type_toString(rightType.type) \o ", should be int")
        ELSE Ok(IntType)

BinOp_rule(self, leftType, rightType) ==
    IF ~leftType.ok THEN leftType
    ELSE IF ~rightType.ok THEN rightType
    ELSE IF self.op = "Eq" \/ self.op = "NotEq" THEN
        IF ~typeEq(leftType.type, rightType.type)
        THEN TypeError("incompatible types " \o Type_toString(leftType.type) \o " vs "
                       \o Type_toString(rightType.type) \o " in binary op")
        ELSE IF IsStruct(leftType.type) \/ IsFn(leftType.type)
        THEN TypeError("invalid type " \o Type_toString(leftType.type)
                       \o " used in binary op")
        ELSE IF IsStruct(rightType.type) \/ IsFn(rightType.type)
        THEN TypeError("invalid type " \o Type_toString(rightType.type)
                       \o " used in binary op")
        ELSE Ok(IntType)
    ELSE
        IF ~typeEq(leftType.type, IntType)
        THEN TypeError("non-int type " \o Type_toString(leftType.type)
                       \o " for left operand of binary op")
        ELSE IF ~typeEq(rightType.type, IntType)
        THEN TypeError("right operand of binary op has type "
                       \o Type_toString(rightType.type) \o ", should be int")
        ELSE Ok(IntType)

BinOp_check(self, gamma, delta) ==
    BinOp_rule(self, Exp_check(self.left, gamma, delta),
               Exp_check(self.right, gamma, delta))

NewSingle_check(self, gamma, delta) ==
    IF IsNil(self.type) \/ IsFn(self.type)
    THEN TypeError("invalid type used for allocation")
    ELSE IF IsStruct(self.type) /\ self.type.name \notin DOMAIN delta
    THEN TypeError("allocating non-existent struct type")
    ELSE Ok(PtrType(self.type))

NewArray_rule(self, amtType) ==
    IF ~amtType.ok THEN amtType
    ELSE IF ~typeEq(amtType.type, IntType)
         THEN TypeError("non-int type " \o Type_toString(amtType.type)
                        \o " used for second argument of allocation")
    ELSE IF IsNil(self.type) \/ IsFn(self.type) \/ IsStruct(self.type)
         THEN TypeError("invalid type used for first argument of allocation")
    ELSE Ok(ArrayType(self.type))

NewArray_check(self, gamma, delta) ==
    NewArray_rule(self, Exp_check(self.size, gamma, delta))

\* The direct_id test of FunCall::check: the callee is a Val wrapping an Id
\* (an Exp is never itself an Id, so the first dynamic_cast cannot succeed).
DirectIdName(callee) ==
    IF callee.kind = "Val" /\ callee.place.kind = "Id" THEN <<callee.place.name>>
    ELSE <<>>

\* One iteration of the argument loop of FunCall::check.
FunCall_arg(argType, paramType, rest) ==
    IF ~argType.ok THEN argType
    ELSE IF ~typeEq(argType.type, paramType)
         THEN TypeError("incompatible argument type " \o Type_toString(argType.type)
                        \o " vs parameter type " \o Type_toString(paramType))
    ELSE rest

\* The argument loop of FunCall::check, from argument i on.
FunCall_args(self, funcType, i, gamma, delta) ==
    IF i > Len(self.args) THEN Ok(funcType.returnType)
    ELSE FunCall_arg(Exp_check(self.args[i], gamma, delta), funcType.paramTypes[i],
                     FunCall_args(self, funcType, i + 1, gamma, delta))

\* Mutant: any chain of pointers to a function is followed.
FunCall_funcType_AnyDepth(calleeType) ==
    IF IsFn(calleeType) THEN <<calleeType>>
    ELSE IF IsPtr(calleeType) /\ IsFn(calleeType.pointeeType)
         THEN <<calleeType.pointeeType>>
    ELSE IF IsPtr(calleeType) /\ IsPtr(calleeType.pointeeType)
            /\ IsFn(calleeType.pointeeType.pointeeType)
         THEN <<calleeType.pointeeType.pointeeType>>
    ELSE <<>>

\* The FnType a callee type stands for: itself, or what it points to.
FunCall_funcType(calleeType) ==
    IF IsFn(calleeType) THEN <<calleeType>>
    ELSE IF IsPtr(calleeType) /\ IsFn(calleeType.pointeeType)
         THEN <<calleeType.pointeeType>>
    ELSE <<>>

FunCall_signature(self, calleeType, funcType, gamma, delta) ==
    IF funcType = <<>>
    THEN TypeError("trying to call type " \o Type_toString(calleeType)
                   \o " as function pointer in call")
    ELSE IF Len(self.args) # Len(funcType[1].paramTypes)
    THEN TypeError("incorrect number of arguments (" \o ToString(Len(self.args))
                   \o " vs " \o ToString(Len(funcType[1].paramTypes)) \o ") in call")
    ELSE FunCall_args(self, funcType[1], 1, gamma, delta)

\* What follows the 'main' test of FunCall::check.
FunCall_typed(self, calleeType, gamma, delta) ==
    IF ~calleeType.ok THEN calleeType
    ELSE FunCall_signature(self, calleeType.type, FunCall_funcType(calleeType.type),
                           gamma, delta)

\* Mutant: the callee is typed before it is compared with 'main'.
FunCall_rule_TypeFirst(self, calleeType, gamma, delta) ==
    IF ~calleeType.ok THEN calleeType
    ELSE IF DirectIdName(self.callee) = <<"main">>
         THEN TypeError("trying to call 'main'")
    ELSE FunCall_typed(self, calleeType, gamma, delta)

\* calleeType is callee->check(gamma, delta), which the code evaluates only
\* once the 'main' test has passed.
FunCall_rule(self, calleeType, gamma, delta) ==
    IF DirectIdName(self.callee) = <<"main">>
    THEN TypeError("trying to call 'main'")
    ELSE FunCall_typed(self, calleeType, gamma, delta)

FunCall_check(self, gamma, delta) ==
    FunCall_rule(self, Exp_check(self.callee, gamma, delta), gamma, delta)

Place_check(p, gamma, delta) ==
    CASE p.kind = "Id" -> Id_check(p, gamma, delta)
      [] p.kind = "Deref" -> Deref_check(p, gamma, delta)
      [] p.kind = "ArrayAccess" -> ArrayAccess_check(p, gamma, delta)
      [] p.kind = "FieldAccess" -> FieldAccess_check(p, gamma, delta)

Exp_check(e, gamma, delta) ==
    CASE e.kind = "Val" -> Place_check(e.place, gamma, delta)
      [] e.kind = "Num" -> Num_check(e, gamma, delta)
      [] e.kind = "Nil" -> NilExp_check(e, gamma, delta)
      [] e.kind = "Select" -> Select_check(e, gamma, delta)
      [] e.kind = "UnOp" -> UnOp_check(e, gamma, delta)
      [] e.kind = "BinOp" -> BinOp_check(e, gamma, delta)
      [] e.kind = "NewSingle" -> NewSingle_check(e, gamma, delta)
      [] e.kind = "NewArray" -> NewArray_check(e, gamma, delta)
      [] e.kind = "CallExp" -> FunCall_check(e.fun_call, gamma, delta)

(***************************************************************************)
(* Statement rules: the result is whether the statement definitely returns.*)
(***************************************************************************)
RECURSIVE Stmt_check(_, _, _, _, _), Stmts_loop(_, _, _, _, _, _, _)

\* An expression's TypeError leaving a statement rule.
Rethrow(r) == StmtError(r.msg)

\* Mutant: the loop ends at the first statement that definitely returns.
Stmts_step_StopAtReturn(self, i, definitelyReturns, r, gamma, delta, returnType, inLoop) ==
    IF ~r.ok THEN r
    ELSE IF r.returns THEN OkStmt(TRUE)
    ELSE Stmts_loop(self, i + 1, definitelyReturns, gamma, delta, returnType, inLoop)

\* Mutant: after an ill-typed statement the loop goes on, and the error of the
\* last ill-typed statement is the one reported.
Stmts_step_LastError(self, i, definitelyReturns, r, gamma, delta, returnType, inLoop) ==
    IF ~r.ok
    THEN IF Stmts_loop(self, i + 1, definitelyReturns, gamma, delta, returnType, inLoop).ok
         THEN r
         ELSE Stmts_loop(self, i + 1, definitelyReturns, gamma, delta, returnType, inLoop)
    ELSE Stmts_loop(self, i + 1, IF definitelyReturns THEN TRUE ELSE r.returns,
                    gamma, delta, returnType, inLoop)

\* One iteration of the loop of Stmts::check; every statement is checked, also
\* after definitelyReturns became true.
Stmts_step(self, i, definitelyReturns, r, gamma, delta, returnType, inLoop) ==
    IF ~r.ok THEN r
    ELSE Stmts_loop(self, i + 1, IF definitelyReturns THEN TRUE ELSE r.returns,
                    gamma, delta, returnType, inLoop)

Stmts_loop(self, i, definitelyReturns, gamma, delta, returnType, inLoop) ==
    IF i > Len(self.statements) THEN OkStmt(definitelyReturns)
    ELSE Stmts_step(self, i, definitelyReturns,
                    Stmt_check(self.statements[i], gamma, delta, returnType, inLoop),
                    gamma, delta, returnType, inLoop)

Stmts_check(self, gamma, delta, returnType, inLoop) ==
    Stmts_loop(self, 1, FALSE, gamma, delta, returnType, inLoop)

\* Mutant: the two sides must have the same type, nil or not.
Assign_rule_SameType(lhsType, rhsType) ==
    IF ~lhsType.ok THEN Rethrow(lhsType)
    ELSE IF ~rhsType.ok THEN Rethrow(rhsType)
    ELSE IF IsStruct(lhsType.type) \/ IsFn(lhsType.type) \/ IsNil(lhsType.type)
         THEN StmtError("invalid type " \o Type_toString(lhsType.type)
                        \o " for left-hand side of assignment")
    ELSE IF lhsType.type # rhsType.type
         THEN StmtError("incompatible types " \o Type_toString(lhsType.type) \o " vs "
                        \o Type_toString(rhsType.type) \o " for assignment")
    ELSE OkStmt(FALSE)

Assign_rule(lhsType, rhsType) ==
    IF ~lhsType.ok THEN Rethrow(lhsType)
    ELSE IF ~rhsType.ok THEN Rethrow(rhsType)
    ELSE IF IsStruct(lhsType.type) \/ IsFn(lhsType.type) \/ IsNil(lhsType.type)
         THEN StmtError("invalid type " \o Type_toString(lhsType.type)
                        \o " for left-hand side of assignment")
    ELSE IF ~typeEq(lhsType.type, rhsType.type)
         THEN StmtError("incompatible types " \o Type_toString(lhsType.type) \o " vs "
                        \o Type_toString(rhsType.type) \o " for assignment")
    ELSE OkStmt(FALSE)

Assign_check(self, gamma, delta, returnType, inLoop) ==
    Assign_rule(Place_check(self.place, gamma, delta), Exp_check(self.exp, gamma, delta))

CallStmt_rule(r) == IF ~r.ok THEN Rethrow(r) ELSE OkStmt(FALSE)

CallStmt_check(self, gamma, delta, returnType, inLoop) ==
    CallStmt_rule(FunCall_check(self.fun_call, gamma, delta))

\* Mutant: one returning branch is enough.
If_rule_EitherBranch(guardType, ttReturns, ffReturns) ==
    IF ~guardType.ok THEN Rethrow(guardType)
    ELSE IF ~typeEq(guardType.type, IntType)
         THEN StmtError("non-int type " \o Type_toString(guardType.type)
                        \o " for if guard")
    ELSE IF ~ttReturns.ok THEN ttReturns
    ELSE IF ~ffReturns.ok THEN ffReturns
    ELSE OkStmt(ttReturns.returns \/ ffReturns.returns)

\* ffReturns is the else branch's result, or false when there is none.
If_rule(guardType, ttReturns, ffReturns) ==
    IF ~guardType.ok THEN Rethrow(guardType)
    ELSE IF ~typeEq(guardType.type, IntType)
         THEN StmtError("non-int type " \o Type_toString(guardType.type)
                        \o " for if guard")
    ELSE IF ~ttReturns.ok THEN ttReturns
    ELSE IF ~ffReturns.ok THEN ffReturns
    ELSE OkStmt(ttReturns.returns /\ ffReturns.returns)

\* Mutant: an If without else returns what its then branch returns.
If_noElse_Returns == OkStmt(TRUE)

\* ffReturns of an If that has no else branch.
If_noElse == OkStmt(FALSE)

If_check(self, gamma, delta, returnType, inLoop) ==
    If_rule(Exp_check(self.guard, gamma, delta),
            Stmt_check(self.tt, gamma, delta, returnType, inLoop),
            IF self.ff # <<>>
            THEN Stmt_check(self.ff[1], gamma, delta, returnType, inLoop)
            ELSE If_noElse)

\* Mutant: the returned value must have the declared type itself.
Return_rule_SameType(expType, returnType) ==
    IF ~expType.ok THEN Rethrow(expType)
    ELSE IF expType.type # returnType
         THEN StmtError("incompatible return type " \o Type_toString(expType.type)
                        \o ", should be " \o Type_toString(returnType))
    ELSE OkStmt(TRUE)

\* Mutant: a loop returns what its body returns.
While_rule_BodyReturns(guardType, body) ==
    IF ~guardType.ok THEN Rethrow(guardType)
    ELSE IF ~typeEq(guardType.type, IntType)
         THEN StmtError("non-int type " \o Type_toString(guardType.type)
                        \o " for while guard")
    ELSE body

While_rule(guardType, body) ==
    IF ~guardType.ok THEN Rethrow(guardType)
    ELSE IF ~typeEq(guardType.type, IntType)
         THEN StmtError("non-int type " \o Type_toString(guardType.type)
                        \o " for while guard")
    ELSE IF ~body.ok THEN body
    ELSE OkStmt(FALSE)

\* Mutant: the body is checked with the flag of the loop itself.
While_check_OuterLoop(self, gamma, delta, returnType, inLoop) ==
    While_rule(Exp_check(self.guard, gamma, delta),
               Stmt_check(self.body, gamma, delta, returnType, inLoop))

While_check(self, gamma, delta, returnType, inLoop) ==
    While_rule(Exp_check(self.guard, gamma, delta),
               Stmt_check(self.body, gamma, delta, returnType, TRUE))

Return_rule(expType, returnType) ==
    IF ~expType.ok THEN Rethrow(expType)
    ELSE IF ~typeEq(expType.type, returnType)
         THEN StmtError("incompatible return type " \o Type_toString(expType.type)
                        \o ", should be " \o Type_toString(returnType))
    ELSE OkStmt(TRUE)

Return_check(self, gamma, delta, returnType, inLoop) ==
    IF self.exp # <<>> THEN Return_rule(Exp_check(self.exp[1], gamma, delta), returnType)
    ELSE IF ~typeEq(returnType, IntType)
         THEN StmtError("missing return expression for non-int function type "
                        \o Type_toString(returnType))
    ELSE StmtError("return statement requires an expression in this function")

Break_check(self, gamma, delta, returnType, inLoop) ==
    IF ~inLoop THEN StmtError("break outside loop") ELSE OkStmt(FALSE)

Continue_check(self, gamma, delta, returnType, inLoop) ==
    IF ~inLoop THEN StmtError("continue outside loop") ELSE OkStmt(FALSE)

Stmt_check(s, gamma, delta, returnType, inLoop) ==
    CASE s.kind = "Stmts" -> Stmts_check(s, gamma, delta, returnType, inLoop)
      [] s.kind = "Assign" -> Assign_check(s, gamma, delta, returnType, inLoop)
      [] s.kind = "CallStmt" -> CallStmt_check(s, gamma, delta, returnType, inLoop)
      [] s.kind = "If" -> If_check(s, gamma, delta, returnType, inLoop)
      [] s.kind = "While" -> While_check(s, gamma, delta, returnType, inLoop)
      [] s.kind = "Return" -> Return_check(s, gamma, delta, returnType, inLoop)
      [] s.kind = "Break" -> Break_check(s, gamma, delta, returnType, inLoop)
      [] s.kind = "Continue" -> Continue_check(s, gamma, delta, returnType, inLoop)

(***************************************************************************)
(* Top-level rules.                                                        *)
(***************************************************************************)
\* A void check method: it returns, or throws the TypeError msg.
Passed == [ok |-> TRUE, msg |-> ""]
Thrown(m) == [ok |-> FALSE, msg |-> m]

\* typ is Nil, Struct or Fn at top level.
InvalidVarType(t) == IsNil(t) \/ IsStruct(t) \/ IsFn(t)

RECURSIVE StructDef_fields(_, _, _)

\* One iteration of the field loop of StructDef::check.
StructDef_field(self, field, i, fieldNames) ==
    IF InvalidVarType(field.type)
    THEN Thrown("invalid type " \o Type_toString(field.type) \o " for struct field "
                \o self.name \o "::" \o field.name)
    ELSE IF field.name \in fieldNames
    THEN Thrown("Duplicate field name '" \o field.name \o "' in struct '"
                \o self.name \o "'")
    ELSE StructDef_fields(self, i + 1, fieldNames \cup {field.name})

StructDef_fields(self, i, fieldNames) ==
    IF i > Len(self.fields) THEN Passed
    ELSE StructDef_field(self, self.fields[i], i, fieldNames)

\* Mutant: a struct without fields passes.
StructDef_check_AllowEmpty(self, gamma, delta) == StructDef_fields(self, 1, {})

StructDef_check(self, gamma, delta) ==
    IF self.fields = <<>> THEN Thrown("empty struct " \o self.name)
    ELSE StructDef_fields(self, 1, {})

\* The state of FunctionDef::check's declaration loops: localGamma and
\* localNames, or the TypeError thrown.
Scope(g, ns) == [ok |-> TRUE, msg |-> "", gamma |-> g, names |-> ns]
ScopeError(m) == [ok |-> FALSE, msg |-> m, gamma |-> EmptyMap, names |-> {}]

RECURSIVE AddDecls(_, _, _, _, _)

\* One iteration of a declaration loop of FunctionDef::check.
AddDecl(fname, decls, d, i, localGamma, localNames) ==
    IF InvalidVarType(d.type)
    THEN ScopeError("invalid type " \o Type_toString(d.type) \o " for variable "
                    \o d.name \o " in function " \o fname)
    ELSE IF d.name \in localNames
    THEN ScopeError("Duplicate parameter/local name '" \o d.name
                    \o "' in function '" \o fname \o "'")
    ELSE AddDecls(fname, decls, i + 1, MapPut(localGamma, d.name, d.type),
                  localNames \cup {d.name})

\* A declaration loop of FunctionDef::check (parameters, then locals) from
\* declaration i on.
AddDecls(fname, decls, i, localGamma, localNames) ==
    IF i > Len(decls) THEN Scope(localGamma, localNames)
    ELSE AddDecl(fname, decls, decls[i], i, localGamma, localNames)

FunctionDef_returns(self, definitelyReturns) ==
    IF ~definitelyReturns.ok THEN Thrown(definitelyReturns.msg)
    ELSE IF ~definitelyReturns.returns
    THEN Thrown("function " \o self.name \o " may not execute a return")
    ELSE Passed

\* The body part of FunctionDef::check, under the function's environment.
FunctionDef_body(self, localGamma, delta) ==
    IF self.body.kind # "Stmts"
    THEN Thrown("function " \o self.name
                \o " has an invalid body structure (expected Stmts)")
    ELSE IF self.body.statements = <<>>
    THEN Thrown("function " \o self.name \o " has an empty body")
    ELSE FunctionDef_returns(self,
             Stmt_check(self.body, localGamma, delta, self.rettype, FALSE))

FunctionDef_afterLocals(self, ls, delta) ==
    IF ~ls.ok THEN Thrown(ls.msg) ELSE FunctionDef_body(self, ls.gamma, delta)

\* Mutant: the locals are tested for duplicates among themselves only.
FunctionDef_afterParams_SeparateSets(self, ps, delta) ==
    IF ~ps.ok THEN Thrown(ps.msg)
    ELSE FunctionDef_afterLocals(self,
             AddDecls(self.name, self.locals, 1, ps.gamma, {}), delta)

FunctionDef_afterParams(self, ps, delta) ==
    IF ~ps.ok THEN Thrown(ps.msg)
    ELSE FunctionDef_afterLocals(self,
             AddDecls(self.name, self.locals, 1, ps.gamma, ps.names), delta)

FunctionDef_check(self, gamma, delta) ==
    FunctionDef_afterParams(self, AddDecls(self.name, self.params, 1, gamma, {}), delta)

RECURSIVE gamma_externs(_, _, _), gamma_functions(_, _, _), delta_fields(_, _, _),
          delta_structs(_, _, _)

gamma_externs(externs, i, gamma) ==
    IF i > Len(externs) THEN gamma
    ELSE gamma_externs(externs, i + 1,
             MapPut(gamma, externs[i].name,
                    FnType(externs[i].param_types, externs[i].rettype)))

\* The Ptr(Fn) type construct_gamma gives a function.
FunctionType(func) ==
    PtrType(FnType([k \in 1..Len(func.params) |-> func.params[k].type], func.rettype))

\* Mutant: main is bound like every other function.
gamma_functions_WithMain(functions, i, gamma) ==
    IF i > Len(functions) THEN gamma
    ELSE gamma_functions(functions, i + 1,
             MapPut(gamma, functions[i].name, FunctionType(functions[i])))

gamma_functions(functions, i, gamma) ==
    IF i > Len(functions) THEN gamma
    ELSE gamma_functions(functions, i + 1,
             IF functions[i].name # "main"
             THEN MapPut(gamma, functions[i].name, FunctionType(functions[i]))
             ELSE gamma)

construct_gamma(externs, functions) ==
    gamma_functions(functions, 1, gamma_externs(externs, 1, EmptyMap))

delta_fields(fields, i, m) ==
    IF i > Len(fields) THEN m
    ELSE delta_fields(fields, i + 1, MapPut(m, fields[i].name, fields[i].type))

delta_structs(structs, i, delta) ==
    IF i > Len(structs) THEN delta
    ELSE delta_structs(structs, i + 1,
             MapPut(delta, structs[i].name, delta_fields(structs[i].fields, 1, EmptyMap)))

construct_delta(structs) == delta_structs(structs, 1, EmptyMap)

\* topLevelNames after an insertion loop of Program::check, or the TypeError
\* of the first insertion that failed.
NameSet(ns) == [ok |-> TRUE, msg |-> "", names |-> ns]
NameError(m) == [ok |-> FALSE, msg |-> m, names |-> {}]

RECURSIVE InsertNames(_, _, _, _)

\* One of the three insertion loops of Program::check over the names `names`
\* from position i on; skipMain is the f->name != "main" test of the function
\* loop.
InsertNames(names, i, topLevelNames, skipMain) ==
    IF i > Len(names) THEN NameSet(topLevelNames)
    ELSE IF skipMain /\ names[i] = "main"
         THEN InsertNames(names, i + 1, topLevelNames, skipMain)
    ELSE IF names[i] \in topLevelNames
         THEN NameError("Duplicate name: " \o names[i])
    ELSE InsertNames(names, i + 1, topLevelNames \cup {names[i]}, skipMain)

NamesOf(defs) == [i \in 1..Len(defs) |-> defs[i].name]

\* The test that follows the three loops: main is a struct or extern name
\* and some function is called main.
MainClash(p, f) ==
    IF ~f.ok THEN Thrown(f.msg)
    ELSE IF "main" \in f.names
            /\ \E i \in 1..Len(p.functions) : p.functions[i].name = "main"
         THEN Thrown("Duplicate name: main")
    ELSE Passed

FunctionNames(p, e) ==
    IF ~e.ok THEN Thrown(e.msg)
    ELSE MainClash(p, InsertNames(NamesOf(p.functions), 1, e.names, TRUE))

ExternNames(p, s) ==
    IF ~s.ok THEN Thrown(s.msg)
    ELSE FunctionNames(p, InsertNames(NamesOf(p.externs), 1, s.names, FALSE))

\* Program::check up to construct_gamma: the duplicate-name tests.
CheckTopLevelNames(p) == ExternNames(p, InsertNames(NamesOf(p.structs), 1, {}, FALSE))

RECURSIVE MainLoop(_, _, _)

\* The mainFound loop of Program::check from function i on, and the test
\* that follows it.
MainLoop(functions, i, mainFound) ==
    IF i > Len(functions) THEN
        IF ~mainFound THEN Thrown("no 'main' function with type '() -> int' exists")
        ELSE Passed
    ELSE IF functions[i].name = "main" THEN
             IF functions[i].params = <<>> /\ typeEq(functions[i].rettype, IntType)
             THEN MainLoop(functions, i + 1, TRUE)
             ELSE Thrown("function 'main' exists but has wrong type, should be '() -> int'")
    ELSE MainLoop(functions, i + 1, mainFound)

\* Mutant: the parameter list of main is not looked at.
CheckMain_AnyParams(p) ==
    IF \E i \in 1..Len(p.functions) :
           p.functions[i].name = "main" /\ typeEq(p.functions[i].rettype, IntType)
    THEN Passed
    ELSE Thrown("no 'main' function with type '() -> int' exists")

CheckMain(p) == MainLoop(p.functions, 1, FALSE)

(***************************************************************************)
(* The types of a given number of constructors.                            *)
(***************************************************************************)
RECURSIVE TypesOfSize(_), TypeSeqsOfSize(_)

TypesOfSize(n) ==
    IF n = 1 THEN {IntType, NilType} \cup {StructType(s) : s \in StructNames}
    ELSE {PtrType(t) : t \in TypesOfSize(n - 1)}
         \cup {ArrayType(t) : t \in TypesOfSize(n - 1)}
         \cup UNION {{FnType(ps, r) : ps \in TypeSeqsOfSize(k), r \in TypesOfSize(n - 1 - k)}
                     : k \in 0..(n - 2)}

TypeSeqsOfSize(k) ==
    IF k = 0 THEN {<<>>}
    ELSE UNION {{<<t>> \o s : t \in TypesOfSize(j), s \in TypeSeqsOfSize(k - j)}
                : j \in 1..k}

AllTypes == UNION {TypesOfSize(n) : n \in 1..MaxNodes}

\* Structural identity, computed constructor by constructor.
RECURSIVE SameType(_, _)
SameType(a, b) ==
    /\ a.tag = b.tag
    /\ CASE IsStruct(a) -> a.name = b.name
         [] IsPtr(a) -> SameType(a.pointeeType, b.pointeeType)
         [] IsArray(a) -> SameType(a.elementType, b.elementType)
         [] IsFn(a) -> /\ Len(a.paramTypes) = Len(b.paramTypes)
                       /\ \A i \in 1..Len(a.paramTypes) :
                              SameType(a.paramTypes[i], b.paramTypes[i])
                       /\ SameType(a.returnType, b.returnType)
         [] OTHER -> TRUE

(***************************************************************************)
(* The type helpers applied to every pair of bounded types.                *)
(***************************************************************************)
\* No run has ended yet.
NoRun == [stdout |-> <<>>, stderr |-> <<>>, exitCode |-> -1]

\* The driver's own variables when only the checker is run.
DriverIdle ==
    /\ doc = [json |-> "null"]
    /\ stdout = <<>>
    /\ stderr = <<>>
    /\ exitCode = -1
    /\ run = 1
    /\ firstRun = NoRun
    /\ argOrder = "ltr"

\* The variables of the type helpers when a program is checked.
TypesIdle ==
    /\ t1 = NilType
    /\ t2 = NilType
    /\ eqRes = FALSE
    /\ picked = NilType
    /\ tpc = "idle"

InitTypes ==
    /\ t1 \in AllTypes
    /\ t2 \in AllTypes
    /\ eqRes = FALSE
    /\ picked = NilType
    /\ tpc = "input"
    /\ prog = Program(<<>>, <<>>, <<>>)
    /\ pc = "idle"
    /\ initial_gamma = EmptyMap
    /\ initial_delta = EmptyMap
    /\ si = 1
    /\ fi = 1
    /\ verdict = "running"
    /\ msg = ""
    /\ DriverIdle

\* typeEq(t1, t2)
Compare ==
    /\ tpc = "input"
    /\ eqRes' = typeEq(t1, t2)
    /\ tpc' = "compared"
    /\ UNCHANGED <<t1, t2, picked, progVars, driverVars>>

\* pickNonNil(t1, t2), called as Select::check calls it: after typeEq held.
Pick ==
    /\ tpc = "compared"
    /\ eqRes
    /\ picked' = pickNonNil(t1, t2)
    /\ tpc' = "picked"
    /\ UNCHANGED <<t1, t2, eqRes, progVars, driverVars>>

NextTypes == Compare \/ Pick

SpecTypes == InitTypes /\ [][NextTypes]_vars

(***************************************************************************)
(* The JSON input and the construction of the AST from it.  A JSON value   *)
(* is null, a string, a number, an array or an object; an object is a      *)
(* function from its keys to values.  A build operator yields              *)
(* the node built, or the exception (std::runtime_error, or a json         *)
(* exception) it ends with; the text json.dump() adds to some messages is  *)
(* left out.                                                               *)
(***************************************************************************)
JNull == [json |-> "null"]
JString(s) == [json |-> "string", str |-> s]
JNumber(n) == [json |-> "number", num |-> n]
JArray(items) == [json |-> "array", items |-> items]
JObject(fields) == [json |-> "object", fields |-> fields]

is_null(j) == j.json = "null"
is_string(j) == j.json = "string"
is_array(j) == j.json = "array"
is_object(j) == j.json = "object"
contains(j, key) == is_object(j) /\ key \in DOMAIN j.fields
at(j, key) == j.fields[key]

\* The keys of the input language in the order of std::map, the order in
\* which begin() and iteration visit the members of an object.
KeyOrder ==
    <<"ArrayAccess", "Assign", "BinOp", "Call", "Deref", "FieldAccess", "For", "Id", "If",
      "NewArray", "NewSingle", "Nil", "Num", "Pow", "Return", "Select", "Stmts", "UnOp", "Val",
      "While", "args", "array", "callee", "ff", "field", "guard", "idx", "kind", "left",
      "op", "ptr", "right", "tt">>

\* j.begin().key() and j.begin().value() of a non-empty object.
begin_key(j) ==
    KeyOrder[CHOOSE i \in 1..Len(KeyOrder) :
                 /\ KeyOrder[i] \in DOMAIN j.fields
                 /\ \A k \in 1..(i - 1) : KeyOrder[k] \notin DOMAIN j.fields]

begin_value(j) == j.fields[begin_key(j)]

\* j.empty(): no member, no element; null is empty, other scalars are not.
empty(j) ==
    CASE is_object(j) -> DOMAIN j.fields = {}
      [] is_array(j) -> j.items = <<>>
      [] is_null(j) -> TRUE
      [] OTHER -> FALSE

\* A construction that returned node, or ended with an exception whose
\* what() is w.
Built(node) == [ok |-> TRUE, node |-> node, what |-> ""]
Failed(w) == [ok |-> FALSE, node |-> <<>>, what |-> w]

type_name(j) == j.json

\* j.get<std::string>() and j.get<long long>().
get_string(j) ==
    IF is_string(j) THEN Built(j.str)
    ELSE Failed("[json.exception.type_error.302] type must be string, but is "
                \o type_name(j))

get_number(j) ==
    IF j.json = "number" THEN Built(j.num)
    ELSE Failed("[json.exception.type_error.302] type must be number, but is "
                \o type_name(j))

\* Two constructions evaluated one after the other, in separate statements.
InOrder(a, b) ==
    IF ~a.ok THEN a ELSE IF ~b.ok THEN b ELSE Built(<<a.node, b.node>>)

\* Two or three constructions that are arguments of one call: the language
\* leaves their order to the compiler, argOrder is the order the build uses.
Both(a, b) == IF argOrder = "ltr" THEN InOrder(a, b) ELSE
    IF ~b.ok THEN b ELSE IF ~a.ok THEN a ELSE Built(<<a.node, b.node>>)

Three(a, b, c) ==
    IF argOrder = "ltr"
    THEN IF ~a.ok THEN a ELSE IF ~b.ok THEN b ELSE IF ~c.ok THEN c
         ELSE Built(<<a.node, b.node, c.node>>)
    ELSE IF ~c.ok THEN c ELSE IF ~b.ok THEN b ELSE IF ~a.ok THEN a
         ELSE Built(<<a.node, b.node, c.node>>)

\* push_back of a built element in a loop over a JSON array.
Cons(head, rest) ==
    IF ~head.ok THEN head ELSE IF ~rest.ok THEN rest
    ELSE Built(<<head.node>> \o rest.node)

RECURSIVE buildType(_), buildTypeList(_, _)

MkStructType(r) == IF r.ok THEN Built(StructType(r.node)) ELSE r
MkPtrType(r) == IF r.ok THEN Built(PtrType(r.node)) ELSE r
MkArrayType(r) == IF r.ok THEN Built(ArrayType(r.node)) ELSE r
MkFnType(r) == IF r.ok THEN Built(FnType(r.node[1], r.node[2])) ELSE r

buildTypeList(items, i) ==
    IF i > Len(items) THEN Built(<<>>)
    ELSE Cons(buildType(items[i]), buildTypeList(items, i + 1))

\* The {"Fn": [[ParamTypes], ReturnType]} branch of buildType.
buildType_Fn(fn_sig) ==
    IF ~is_array(fn_sig) \/ Len(fn_sig.items) # 2 \/ ~is_array(fn_sig.items[1])
    THEN Failed("Invalid JSON for Fn type signature")
    ELSE MkFnType(InOrder(buildTypeList(fn_sig.items[1].items, 1),
                          buildType(fn_sig.items[2])))

\* The {"kind": ...} branch of buildType.
buildType_kind(kind) ==
    IF ~kind.ok THEN kind
    ELSE IF kind.node = "Int" THEN Built(IntType)
    ELSE IF kind.node = "Nil" THEN Built(NilType)
    ELSE Failed("Invalid JSON for Type")

buildType(j) ==
    IF is_string(j) THEN
        IF j.str = "Int" THEN Built(IntType)
        ELSE IF j.str = "Nil" THEN Built(NilType)
        ELSE Failed("Unknown simple type string: " \o j.str)
    ELSE IF contains(j, "Struct") THEN MkStructType(get_string(at(j, "Struct")))
    ELSE IF contains(j, "Ptr") THEN MkPtrType(buildType(at(j, "Ptr")))
    ELSE IF contains(j, "Array") THEN MkArrayType(buildType(at(j, "Array")))
    ELSE IF contains(j, "Fn") THEN buildType_Fn(at(j, "Fn"))
    ELSE IF contains(j, "kind") THEN buildType_kind(get_string(at(j, "kind")))
    ELSE Failed("Invalid JSON for Type")

RECURSIVE buildPlace(_), buildExp(_), buildExpList(_, _)

MkId(r) == IF r.ok THEN Built(Id(r.node)) ELSE r
MkDeref(r) == IF r.ok THEN Built(Deref(r.node)) ELSE r
MkArrayAccess(r) == IF r.ok THEN Built(ArrayAccess(r.node[1], r.node[2])) ELSE r
MkFieldAccess(r) == IF r.ok THEN Built(FieldAccess(r.node[1], r.node[2])) ELSE r

buildPlace_kind(key, value) ==
    IF key = "Id" THEN MkId(get_string(value))
    ELSE IF key = "Deref" THEN MkDeref(buildExp(value))
    ELSE IF key = "ArrayAccess" THEN
        IF ~is_object(value) \/ ~contains(value, "array") \/ ~contains(value, "idx")
        THEN Failed("Invalid JSON for ArrayAccess content")
        ELSE MkArrayAccess(Both(buildExp(at(value, "array")), buildExp(at(value, "idx"))))
    ELSE IF key = "FieldAccess" THEN
        IF ~is_object(value) \/ ~contains(value, "ptr") \/ ~contains(value, "field")
        THEN Failed("Invalid JSON for FieldAccess content")
        ELSE MkFieldAccess(Both(buildExp(at(value, "ptr")), get_string(at(value, "field"))))
    ELSE Failed("JSON node is not a valid Place kind: " \o key)

buildPlace(j) ==
    IF ~is_object(j) \/ empty(j)
    THEN Failed("Invalid JSON for Place: Must be non-empty object")
    ELSE buildPlace_kind(begin_key(j), begin_value(j))

MkVal(r) == IF r.ok THEN Built(Val(r.node)) ELSE r
MkNum(r) == IF r.ok THEN Built(Num(r.node)) ELSE r
MkSelect(r) == IF r.ok THEN Built(Select(r.node[1], r.node[2], r.node[3])) ELSE r
MkUnOp(op, r) == IF r.ok THEN Built(UnOp(op, r.node)) ELSE r
MkBinOp(op, r) == IF r.ok THEN Built(BinOp(op, r.node[1], r.node[2])) ELSE r
MkNewSingle(r) == IF r.ok THEN Built(NewSingle(r.node)) ELSE r
MkNewArray(r) == IF r.ok THEN Built(NewArray(r.node[1], r.node[2])) ELSE r
MkFunCall(r) == IF r.ok THEN Built(FunCall(r.node[2], r.node[1])) ELSE r
MkCallExp(r) == IF r.ok THEN Built(CallExp(r.node)) ELSE r

UnaryOp == {"Neg", "Not"}
BinaryOp ==
    {"Add", "Sub", "Mul", "Div", "And", "Or", "Eq", "NotEq", "Lt", "Lte", "Gt", "Gte"}

buildExpList(items, i) ==
    IF i > Len(items) THEN Built(<<>>)
    ELSE Cons(buildExp(items[i]), buildExpList(items, i + 1))

\* The args loop, then the callee as the constructor's argument.
buildFunCall(j) ==
    IF ~is_object(j) \/ ~contains(j, "callee") \/ ~contains(j, "args")
       \/ ~is_array(at(j, "args"))
    THEN Failed("Invalid JSON for FunCall")
    ELSE MkFunCall(InOrder(buildExpList(at(j, "args").items, 1),
                           buildExp(at(j, "callee"))))

buildExp_UnOp(value) ==
    IF ~is_array(value) \/ Len(value.items) # 2
    THEN Failed("Invalid JSON for UnOp content: Expected 2-element array [op, exp]")
    ELSE IF ~is_string(value.items[1])
    THEN Failed("Invalid JSON for UnOp content: Operator name must be a string")
    ELSE IF value.items[1].str \notin UnaryOp
    THEN Failed("Unknown unary operator: " \o value.items[1].str)
    ELSE MkUnOp(value.items[1].str, buildExp(value.items[2]))

buildExp_BinOp_op(value, opStr) ==
    IF ~opStr.ok THEN opStr
    ELSE IF opStr.node \notin BinaryOp
    THEN Failed("Unknown binary operator: " \o opStr.node)
    ELSE MkBinOp(opStr.node,
                 Both(buildExp(at(value, "left")), buildExp(at(value, "right"))))

buildExp_BinOp(value) ==
    IF ~is_object(value) \/ ~contains(value, "op") \/ ~contains(value, "left")
       \/ ~contains(value, "right")
    THEN Failed("Invalid JSON for BinOp content")
    ELSE buildExp_BinOp_op(value, get_string(at(value, "op")))

buildExp_kind(key, value) ==
    IF key \in {"Id", "Deref", "ArrayAccess", "FieldAccess"}
    THEN MkVal(buildPlace(JObject(key :> value)))
    ELSE IF key = "Num" THEN MkNum(get_number(value))
    ELSE IF key = "Nil" THEN Built(NilExp)
    ELSE IF key = "Select" THEN
        IF ~is_object(value) \/ ~contains(value, "guard") \/ ~contains(value, "tt")
           \/ ~contains(value, "ff")
        THEN Failed("Invalid JSON for Select content")
        ELSE MkSelect(Three(buildExp(at(value, "guard")), buildExp(at(value, "tt")),
                            buildExp(at(value, "ff"))))
    ELSE IF key = "UnOp" THEN buildExp_UnOp(value)
    ELSE IF key = "BinOp" THEN buildExp_BinOp(value)
    ELSE IF key = "NewSingle" THEN MkNewSingle(buildType(value))
    ELSE IF key = "NewArray" THEN
        IF ~is_array(value) \/ Len(value.items) # 2
        THEN Failed("Invalid JSON for NewArray content: Expected 2-element array [Type, Exp]")
        ELSE MkNewArray(InOrder(buildType(value.items[1]), buildExp(value.items[2])))
    ELSE IF key = "Call" THEN MkCallExp(buildFunCall(value))
    ELSE IF key = "Val" THEN MkVal(buildPlace(value))
    ELSE Failed("Unknown/Unhandled expression kind: " \o key)

buildExp(j) ==
    IF ~is_object(j) \/ empty(j) THEN
        IF is_string(j) /\ j.str = "Nil" THEN Built(NilExp)
        ELSE Failed("Invalid JSON for Exp: Must be non-empty object or known literal")
    ELSE buildExp_kind(begin_key(j), begin_value(j))

RECURSIVE buildStmt(_), buildStmtList(_, _)

MkStmts(r) == IF r.ok THEN Built(Stmts(r.node)) ELSE r
MkAssign(r) == IF r.ok THEN Built(Assign(r.node[1], r.node[2])) ELSE r
MkCallStmt(r) == IF r.ok THEN Built(CallStmt(r.node)) ELSE r
MkWhile(r) == IF r.ok THEN Built(While(r.node[1], r.node[2])) ELSE r
MkReturn(r) == IF r.ok THEN Built(Return(<<r.node>>)) ELSE r

\* r is the else branch, built first, then the guard and the then branch
\* built as the constructor's arguments.
MkIf(r) == IF r.ok THEN Built(If(r.node[2][1], r.node[2][2], r.node[1])) ELSE r

buildStmtList(items, i) ==
    IF i > Len(items) THEN Built(<<>>)
    ELSE Cons(buildStmt(items[i]), buildStmtList(items, i + 1))

\* value.value("ff", json()): the member, or null when there is none.
buildStmt_If_ff_json(value) == IF contains(value, "ff") THEN at(value, "ff") ELSE JNull

MkSome(r) == IF r.ok THEN Built(<<r.node>>) ELSE r

\* The optional else branch: none for null and for the empty array.
buildStmt_If_ff(ff_json) ==
    IF ~is_null(ff_json) /\ ~(is_array(ff_json) /\ empty(ff_json))
    THEN MkSome(buildStmt(ff_json))
    ELSE Built(<<>>)

buildStmt_If(value) ==
    IF ~is_object(value) \/ ~contains(value, "guard") \/ ~contains(value, "tt")
    THEN Failed("Invalid JSON for If content: Missing guard or tt")
    ELSE MkIf(InOrder(buildStmt_If_ff(buildStmt_If_ff_json(value)),
                      Both(buildExp(at(value, "guard")), buildStmt(at(value, "tt")))))

buildStmt_kind(key, value) ==
    IF key = "Assign" THEN
        IF ~is_array(value) \/ Len(value.items) # 2
        THEN Failed("Invalid JSON for Assign content: Expected [Place, Exp]")
        ELSE MkAssign(Both(buildPlace(value.items[1]), buildExp(value.items[2])))
    ELSE IF key = "Call" THEN MkCallStmt(buildFunCall(value))
    ELSE IF key = "If" THEN buildStmt_If(value)
    ELSE IF key = "While" THEN
        IF ~is_array(value) \/ Len(value.items) # 2
        THEN Failed("Invalid JSON for While content: Expected [GuardExp, BodyStmtArray]")
        ELSE MkWhile(Both(buildExp(value.items[1]), buildStmt(value.items[2])))
    ELSE IF key = "Return" THEN
        IF is_null(value) THEN Built(Return(<<>>)) ELSE MkReturn(buildExp(value))
    ELSE IF key = "Stmts" THEN
        IF ~is_array(value) THEN Failed("Invalid JSON for nested Stmts content")
        ELSE MkStmts(buildStmtList(value.items, 1))
    ELSE Failed("Unknown statement kind object: " \o key)

buildStmt(j) ==
    IF is_array(j) THEN MkStmts(buildStmtList(j.items, 1))
    ELSE IF is_string(j) THEN
        IF j.str = "Break" THEN Built(Break)
        ELSE IF j.str = "Continue" THEN Built(Continue)
        ELSE Failed("Unknown simple string statement: " \o j.str)
    ELSE IF ~is_object(j) \/ empty(j)
    THEN Failed("Invalid JSON for Stmt: Expected non-empty object, array, or specific string (Break/Continue)")
    ELSE buildStmt_kind(begin_key(j), begin_value(j))

\* The elements a range-for visits in a JSON value that is an array, null
\* (none) or a scalar (the value itself); the inputs put no object there.
elements(j) ==
    IF is_array(j) THEN j.items ELSE IF is_null(j) THEN <<>> ELSE <<j>>

MkDecl(r) == IF r.ok THEN Built(Decl(r.node[1], r.node[2])) ELSE r

buildDecl(j) ==
    IF ~is_object(j) \/ ~contains(j, "name") \/ ~contains(j, "typ")
    THEN Failed("Invalid JSON for Decl")
    ELSE MkDecl(InOrder(get_string(at(j, "name")), buildType(at(j, "typ"))))

RECURSIVE buildDeclList(_, _)

buildDeclList(items, i) ==
    IF i > Len(items) THEN Built(<<>>)
    ELSE Cons(buildDecl(items[i]), buildDeclList(items, i + 1))

\* r holds name, rettype, params and locals, then the statements of the body.
MkFunctionDef(r) ==
    IF r.ok
    THEN Built(FunctionDef(r.node[1][1][1][1], r.node[1][1][2], r.node[1][1][1][2],
                           r.node[1][2], Stmts(r.node[2])))
    ELSE r

buildFunctionDef_stmts(stmts) ==
    IF ~is_array(stmts) THEN Failed("Invalid JSON: function 'stmts' must be an array")
    ELSE buildStmtList(stmts.items, 1)

buildFunctionDef(j) ==
    IF ~is_object(j) \/ ~contains(j, "name") \/ ~contains(j, "prms")
       \/ ~contains(j, "rettyp") \/ ~contains(j, "locals") \/ ~contains(j, "stmts")
    THEN Failed("Invalid JSON for Function definition")
    ELSE MkFunctionDef(
             InOrder(InOrder(InOrder(InOrder(get_string(at(j, "name")),
                                             buildType(at(j, "rettyp"))),
                                     buildDeclList(elements(at(j, "prms")), 1)),
                             buildDeclList(elements(at(j, "locals")), 1)),
                     buildFunctionDef_stmts(at(j, "stmts"))))

MkStructDef(r) == IF r.ok THEN Built(StructDef(r.node[1], r.node[2])) ELSE r

buildStructDef(j) ==
    IF ~is_object(j) \/ ~contains(j, "name") \/ ~contains(j, "fields")
       \/ ~is_array(at(j, "fields"))
    THEN Failed("Invalid JSON for Struct definition")
    ELSE MkStructDef(InOrder(get_string(at(j, "name")),
                             buildDeclList(at(j, "fields").items, 1)))

\* r holds the name and the type built from "typ".
MkExtern(r) ==
    IF ~r.ok THEN r
    ELSE IF IsFn(r.node[2])
    THEN Built(Extern(r.node[1], r.node[2].paramTypes, r.node[2].returnType))
    ELSE Failed("Invalid JSON for Extern definition: 'typ' field is not a function type (Fn)")

buildExtern(j) ==
    IF ~is_object(j) \/ ~contains(j, "name") \/ ~contains(j, "typ")
    THEN Failed("Invalid JSON for Extern definition: missing 'name' or 'typ'")
    ELSE MkExtern(InOrder(get_string(at(j, "name")), buildType(at(j, "typ"))))

RECURSIVE buildStructDefs(_, _), buildExterns(_, _), buildFunctionDefs(_, _)

buildStructDefs(items, i) ==
    IF i > Len(items) THEN Built(<<>>)
    ELSE Cons(buildStructDef(items[i]), buildStructDefs(items, i + 1))

buildExterns(items, i) ==
    IF i > Len(items) THEN Built(<<>>)
    ELSE Cons(buildExtern(items[i]), buildExterns(items, i + 1))

buildFunctionDefs(items, i) ==
    IF i > Len(items) THEN Built(<<>>)
    ELSE Cons(buildFunctionDef(items[i]), buildFunctionDefs(items, i + 1))

MkProgram(r) ==
    IF r.ok THEN Built(Program(r.node[1][1], r.node[1][2], r.node[2])) ELSE r

buildProgram(j) ==
    IF ~is_object(j) \/ ~contains(j, "structs") \/ ~contains(j, "externs")
       \/ ~contains(j, "functions")
    THEN Failed("Invalid JSON for Program root object")
    ELSE MkProgram(InOrder(InOrder(buildStructDefs(elements(at(j, "structs")), 1),
                                   buildExterns(elements(at(j, "externs")), 1)),
                           buildFunctionDefs(elements(at(j, "functions")), 1)))

(***************************************************************************)
(* The programs handed to the checker.                                     *)
(***************************************************************************)
\* Sequences over S of length at most n.
SeqsUpTo(S, n) == UNION {[1..k -> S] : k \in 0..n}

TopNames == {"main", "f"}

ReturnZero == Return(<<Num(0)>>)
FnPtrType == PtrType(FnType(<<>>, IntType))

StructPool ==
    {StructDef("main", <<Decl("x", IntType)>>),
     StructDef("f", <<Decl("x", IntType)>>),
     StructDef("f", <<>>)}

ExternPool == {Extern(n, <<>>, IntType) : n \in TopNames}

\* Signatures and bodies: () -> int, (x: int) -> int, () -> ptr(int), and a
\* () -> int function whose body is empty.
FuncShapes ==
    {[params |-> <<>>, rettype |-> IntType, body |-> Stmts(<<ReturnZero>>)],
     [params |-> <<Decl("x", IntType)>>, rettype |-> IntType,
      body |-> Stmts(<<Return(<<Val(Id("x"))>>)>>)],
     [params |-> <<>>, rettype |-> PtrType(IntType),
      body |-> Stmts(<<Return(<<NilExp>>)>>)],
     [params |-> <<>>, rettype |-> IntType, body |-> Stmts(<<>>)]}

FuncPool ==
    {FunctionDef(n, v.params, v.rettype, <<>>, v.body) : n \in TopNames, v \in FuncShapes}

MainOk == FunctionDef("main", <<>>, IntType, <<>>, Stmts(<<ReturnZero>>))

\* Programs that vary the top-level definitions and their names: at most
\* MaxDefs definitions in all.
NamePrograms ==
    UNION {{Program(ss, es, fs) :
                ss \in [1..a -> StructPool],
                es \in [1..b -> ExternPool],
                fs \in SeqsUpTo(FuncPool, MaxDefs - a - b)}
           : <<a, b>> \in {ab \in (0..MaxDefs) \X (0..MaxDefs) : ab[1] + ab[2] <= MaxDefs}}

\* Programs of one function (alone, or after a well-formed main) that vary
\* the function's parameters and locals.
DeclPool ==
    {Decl("x", IntType), Decl("x", PtrType(IntType)), Decl("y", IntType),
     Decl("y", NilType)}

DeclFuncs ==
    {FunctionDef(n, ps, IntType, ls, Stmts(<<ReturnZero>>)) :
        n \in TopNames, ps \in SeqsUpTo(DeclPool, MaxDecls),
        ls \in SeqsUpTo(DeclPool, MaxDecls)}

\* Programs of one function that calls something, in statement and in
\* expression positions, with and without a variable named main in scope.
ArgPool == {Num(0), NilExp, Val(Id("nope"))}

Calls ==
    {FunCall(Val(Id(c)), as) : c \in {"main", "f", "nope"}, as \in SeqsUpTo(ArgPool, MaxArgs)}

CallBodies(fc) ==
    {Stmts(<<CallStmt(fc), ReturnZero>>),
     Stmts(<<Return(<<CallExp(fc)>>)>>),
     Stmts(<<ReturnZero, CallStmt(fc)>>),
     Stmts(<<If(CallExp(fc), Stmts(<<ReturnZero>>), <<Stmts(<<ReturnZero>>)>>)>>),
     Stmts(<<While(Num(1), Stmts(<<CallStmt(fc)>>)), ReturnZero>>),
     Stmts(<<If(Num(1), Stmts(<<ReturnZero>>), <<Stmts(<<CallStmt(fc), ReturnZero>>)>>)>>),
     Stmts(<<Return(<<BinOp("Add", Num(0), CallExp(fc))>>)>>),
     Stmts(<<CallStmt(FunCall(Val(Id("f")), <<CallExp(fc)>>)), ReturnZero>>),
     Stmts(<<Return(<<Select(Num(1), Num(0), CallExp(fc))>>)>>),
     Stmts(<<Assign(Deref(CallExp(fc)), Num(0)), ReturnZero>>)}

MainVarDecls == {<<>>, <<Decl("main", FnPtrType)>>}

CallFuncs ==
    {FunctionDef(n, ps, IntType, ls, b) :
        n \in TopNames, ps \in MainVarDecls, ls \in MainVarDecls,
        b \in UNION {CallBodies(fc) : fc \in Calls}}

SingleFunctionPrograms(F) ==
    {Program(<<>>, <<>>, <<f>>) : f \in F} \cup {Program(<<>>, <<>>, <<MainOk, f>>) : f \in F}

DeclPrograms == SingleFunctionPrograms(DeclFuncs)

CallPrograms == SingleFunctionPrograms(CallFuncs)

\* Programs of one function main whose body varies its control flow: blocks
\* of at most MaxStmtNodes statement nodes built from returns, jumps and
\* assignments (some ill-typed), If with and without else, and While.  The
\* local x is an int.
StmtAtoms ==
    {ReturnZero, Return(<<NilExp>>), Break, Continue, Assign(Id("x"), Num(0))}

RECURSIVE StmtsOfSize(_), BlocksOfSize(_)

\* The statement lists of n nodes in all.
BlocksOfSize(n) ==
    IF n = 0 THEN {<<>>}
    ELSE UNION {{<<st>> \o b : st \in StmtsOfSize(k), b \in BlocksOfSize(n - k)} :
                k \in 1..n}

\* The statements of n nodes: an atom, or an If or While over lists of n - 1
\* nodes.
StmtsOfSize(n) ==
    (IF n = 1 THEN StmtAtoms ELSE {})
    \cup {If(Num(1), Stmts(b), <<>>) : b \in BlocksOfSize(n - 1)}
    \cup UNION {{If(Num(1), Stmts(b), <<Stmts(c)>>) :
                    b \in BlocksOfSize(k), c \in BlocksOfSize(n - 1 - k)} :
                k \in 0..(n - 1)}
    \cup {While(Num(1), Stmts(b)) : b \in BlocksOfSize(n - 1)}

StmtFuncs ==
    {FunctionDef("main", <<>>, IntType, <<Decl("x", IntType)>>, Stmts(b)) :
        b \in UNION {BlocksOfSize(n) : n \in 0..MaxStmtNodes}}

StmtPrograms == {Program(<<>>, <<>>, <<f>>) : f \in StmtFuncs}

\* Programs that vary one assignment or one call of main, in an environment
\* with a place or callee of every kind of type: the struct S, the externs
\* e: (int) -> int and z: () -> int, the function g: (ptr(int)) -> ptr(int),
\* and the locals below.
ExpLocals ==
    <<Decl("i", IntType), Decl("p", PtrType(IntType)), Decl("a", ArrayType(IntType)),
      Decl("s", PtrType(StructType("S"))), Decl("n", PtrType(NilType)),
      Decl("pp", PtrType(FnPtrType))>>

ExpStructs == <<StructDef("S", <<Decl("x", IntType)>>)>>

ExpExterns == <<Extern("e", <<IntType>>, IntType), Extern("z", <<>>, IntType)>>

ExpHelper ==
    FunctionDef("g", <<Decl("x", PtrType(IntType))>>, PtrType(IntType), <<>>,
                Stmts(<<Return(<<Val(Id("x"))>>)>>))

\* Places of type int, ptr, array, ptr(struct), struct, nil, fn, ptr(fn), and
\* an unbound one.
PlacePool ==
    {Id("i"), Id("p"), Id("a"), Id("s"), Deref(Val(Id("s"))), Deref(Val(Id("n"))),
     Id("e"), Id("g"), Id("nope")}

ValuePool ==
    {Num(0), NilExp, Val(Id("i")), Val(Id("p")), Val(Id("a")), Val(Id("s")),
     Val(Deref(Val(Id("s")))), Val(Id("e")), Val(Id("nope"))}

\* Callees of type fn, ptr(fn), ptr(ptr(fn)), int, nil, ptr, array, struct,
\* and an unbound one.
CalleePool ==
    {Val(Id("e")), Val(Id("z")), Val(Id("g")), Val(Deref(Val(Id("g")))),
     Val(Id("pp")), Val(Deref(Val(Id("pp")))), Val(Id("i")), NilExp, Val(Id("p")),
     Val(Id("a")), Val(Deref(Val(Id("s")))), Val(Id("nope"))}

CallArgPool == {Num(0), NilExp, Val(Id("p")), Val(Id("nope"))}

ExpBodies ==
    {Stmts(<<Assign(pl, v), ReturnZero>>) : pl \in PlacePool, v \in ValuePool}
    \cup {Stmts(<<CallStmt(FunCall(c, as)), ReturnZero>>) :
             c \in CalleePool, as \in SeqsUpTo(CallArgPool, MaxArgs)}
    \cup {Stmts(<<Assign(Id("p"), CallExp(FunCall(c, as))), ReturnZero>>) :
             c \in CalleePool, as \in SeqsUpTo(CallArgPool, MaxArgs)}

ExpPrograms ==
    {Program(ExpStructs, ExpExterns,
             <<FunctionDef("main", <<>>, IntType, ExpLocals, b), ExpHelper>>) :
        b \in ExpBodies}

\* Programs with a function h that returns a value of every kind of type, or
\* nothing, under each declared return type; h has the locals above.
RetTypes ==
    {IntType, NilType, PtrType(IntType), ArrayType(IntType), PtrType(StructType("S")),
     StructType("S"), FnPtrType}

ReturnPrograms ==
    {Program(ExpStructs, ExpExterns,
             <<MainOk, FunctionDef("h", <<>>, t, ExpLocals, Stmts(<<r>>)), ExpHelper>>) :
        t \in RetTypes,
        r \in {Return(<<v>>) : v \in ValuePool \cup {Val(Id("g"))}} \cup {Return(<<>>)}}

\* Programs with one struct S of at most MaxFields fields, named x or y, of
\* every kind of type, a pointer to S itself and to an undefined struct
\* included.
FieldTypes ==
    {IntType, NilType, StructType("S"), FnType(<<>>, IntType), PtrType(StructType("S")),
     PtrType(StructType("T")), ArrayType(IntType), FnPtrType}

FieldPool == {Decl(n, t) : n \in {"x", "y"}, t \in FieldTypes}

StructPrograms ==
    {Program(<<StructDef("S", fs)>>, <<>>, <<MainOk>>) : fs \in SeqsUpTo(FieldPool, MaxFields)}

\* Programs that refer to the identifier main as a value, in main itself and
\* in a function g, with and without a local or parameter called main, and
\* with and without an extern called main; some have no function main.
GammaExterns ==
    {<<>>, <<Extern("e", <<IntType>>, IntType)>>, <<Extern("main", <<>>, IntType)>>}

GammaMains ==
    {FunctionDef("main", <<>>, IntType, <<Decl("i", IntType)>> \o ls,
                 Stmts(<<Assign(Id("i"), v), ReturnZero>>)) :
        ls \in {<<>>, <<Decl("main", IntType)>>}, v \in {Val(Id("main")), Num(0)}}

GammaHelpers ==
    {FunctionDef("g", ps, IntType, <<>>, Stmts(<<Return(<<Val(Id("main"))>>)>>)) :
        ps \in {<<>>, <<Decl("main", IntType)>>}}
    \cup {ExpHelper}

GammaPrograms ==
    {Program(<<>>, es, fs) :
        es \in GammaExterns,
        fs \in {<<>>} \cup {<<m>> : m \in GammaMains} \cup {<<g>> : g \in GammaHelpers}
               \cup {<<m, g>> : m \in GammaMains, g \in GammaHelpers}}

\* Programs of two functions, main and g, in either order, under the extern
\* e: (int) -> int: main may have a local called e or g, and uses e or g as a
\* pointer variable or e as a function; g uses main's local i, or calls e.
ShadowMains ==
    {FunctionDef("main", <<>>, IntType, <<Decl("i", IntType)>> \o ls,
                 Stmts(<<st, ReturnZero>>)) :
        ls \in {<<>>, <<Decl("e", PtrType(IntType))>>, <<Decl("g", PtrType(IntType))>>},
        st \in {Assign(Id("e"), NilExp), Assign(Id("g"), NilExp),
                Assign(Id("i"), CallExp(FunCall(Val(Id("e")), <<Num(0)>>))),
                Assign(Id("i"), Num(0))}}

ShadowHelpers ==
    {FunctionDef("g", <<Decl("x", IntType)>>, IntType, <<>>,
                 Stmts(<<st, Return(<<Val(Id("x"))>>)>>)) :
        st \in {Assign(Id("x"), Val(Id("i"))),
                Assign(Id("x"), CallExp(FunCall(Val(Id("e")), <<Num(0)>>))),
                Assign(Id("x"), Num(0))}}

ShadowPrograms ==
    {Program(<<>>, <<Extern("e", <<IntType>>, IntType)>>, fs) :
        fs \in {<<m, g>> : m \in ShadowMains, g \in ShadowHelpers}
               \cup {<<g, m>> : m \in ShadowMains, g \in ShadowHelpers}}

\* Programs whose main assigns one binary operation, one select or the
\* value of one place, over operands of every kind of type: the struct S
\* has an int field x and a field y that points to S, and main has the
\* locals above and t, a pointer to the undefined struct T.
RuleStructs ==
    <<StructDef("S", <<Decl("x", IntType), Decl("y", PtrType(StructType("S")))>>)>>

RuleLocals == ExpLocals \o <<Decl("t", PtrType(StructType("T")))>>

\* Operands of type int, nil, ptr(int), array(int), ptr(struct S), struct S,
\* fn (two signatures), ptr(fn), ptr(nil), ptr(struct T), and an unbound one.
OperandPool ==
    {Num(0), NilExp, Val(Id("p")), Val(Id("a")), Val(Id("s")), Val(Deref(Val(Id("s")))),
     Val(Id("e")), Val(Id("z")), Val(Id("g")), Val(Id("n")), Val(Id("t")),
     Val(Id("nope"))}

RuleProgram(st) ==
    Program(RuleStructs, ExpExterns,
            <<FunctionDef("main", <<>>, IntType, RuleLocals, Stmts(<<st, ReturnZero>>)),
              ExpHelper>>)

BinOpPrograms ==
    {RuleProgram(Assign(Id("i"), BinOp(o, l, r))) :
        o \in BinaryOp, l \in OperandPool, r \in OperandPool}

\* The select is assigned to an int, a pointer or an array variable; its
\* guard is of type int, nil or ptr(int).
SelectPrograms ==
    {RuleProgram(Assign(Id(x), Select(g, t, f))) :
        x \in {"i", "p", "a"}, g \in {Num(0), NilExp, Val(Id("p"))},
        t \in OperandPool, f \in OperandPool}

\* A dereference, an array access with an index of type int, nil, ptr(int)
\* or array(int), or an access to the field x, y or w, of every operand; the
\* place is read into an int or a ptr(struct S) variable, or assigned 0.
AccessPool ==
    {Deref(o) : o \in OperandPool}
    \cup {ArrayAccess(o, k) :
             o \in OperandPool, k \in {Num(0), NilExp, Val(Id("p")), Val(Id("a"))}}
    \cup {FieldAccess(o, f) : o \in OperandPool, f \in {"x", "y", "w"}}

AccessPrograms ==
    {RuleProgram(Assign(Id(x), Val(pl))) : x \in {"i", "s"}, pl \in AccessPool}
    \cup {RuleProgram(Assign(pl, Num(0))) : pl \in AccessPool}

\* The programs on which the rules for single constructs are examined.
RulePrograms ==
    ReturnPrograms \cup StructPrograms \cup GammaPrograms \cup ShadowPrograms
    \cup BinOpPrograms \cup SelectPrograms \cup AccessPrograms

(***************************************************************************)
(* The input files handed to the driver: the JSON text of programs, in the *)
(* format the build functions read, and malformed inputs.                  *)
(***************************************************************************)
RECURSIVE TypeJson(_), PlaceJson(_), ExpJson(_), StmtJson(_)

\* "Int", "Nil", {"Struct": name}, {"Ptr": T}, {"Array": T},
\* {"Fn": [[Ts], R]}.
TypeJson(t) ==
    CASE IsInt(t) -> JString("Int")
      [] IsNil(t) -> JString("Nil")
      [] IsStruct(t) -> JObject("Struct" :> JString(t.name))
      [] IsPtr(t) -> JObject("Ptr" :> TypeJson(t.pointeeType))
      [] IsArray(t) -> JObject("Array" :> TypeJson(t.elementType))
      [] IsFn(t) ->
             JObject("Fn" :> JArray(<<JArray([k \in 1..Len(t.paramTypes) |->
                                                 TypeJson(t.paramTypes[k])]),
                                      TypeJson(t.returnType)>>))

FunCallJson(fc) ==
    JObject(("callee" :> ExpJson(fc.callee))
            @@ ("args" :> JArray([k \in 1..Len(fc.args) |-> ExpJson(fc.args[k])])))

PlaceJson(p) ==
    CASE p.kind = "Id" -> JObject("Id" :> JString(p.name))
      [] p.kind = "Deref" -> JObject("Deref" :> ExpJson(p.exp))
      [] p.kind = "ArrayAccess" ->
             JObject("ArrayAccess" :> JObject(("array" :> ExpJson(p.array))
                                              @@ ("idx" :> ExpJson(p.index))))
      [] p.kind = "FieldAccess" ->
             JObject("FieldAccess" :> JObject(("ptr" :> ExpJson(p.ptr))
                                              @@ ("field" :> JString(p.field))))

ExpJson(e) ==
    CASE e.kind = "Val" -> PlaceJson(e.place)
      [] e.kind = "Num" -> JObject("Num" :> JNumber(e.value))
      [] e.kind = "Nil" -> JObject("Nil" :> JNull)
      [] e.kind = "Select" ->
             JObject("Select" :> JObject(("guard" :> ExpJson(e.guard))
                                         @@ ("tt" :> ExpJson(e.tt))
                                         @@ ("ff" :> ExpJson(e.ff))))
      [] e.kind = "UnOp" -> JObject("UnOp" :> JArray(<<JString(e.op), ExpJson(e.exp)>>))
      [] e.kind = "BinOp" ->
             JObject("BinOp" :> JObject(("op" :> JString(e.op))
                                        @@ ("left" :> ExpJson(e.left))
                                        @@ ("right" :> ExpJson(e.right))))
      [] e.kind = "NewSingle" -> JObject("NewSingle" :> TypeJson(e.type))
      [] e.kind = "NewArray" ->
             JObject("NewArray" :> JArray(<<TypeJson(e.type), ExpJson(e.size)>>))
      [] e.kind = "CallExp" -> JObject("Call" :> FunCallJson(e.fun_call))

\* A statement list is written {"Stmts": [...]}, which also keeps an empty
\* else branch apart from a missing one; an If without else has no "ff".
StmtJson(s) ==
    CASE s.kind = "Stmts" ->
             JObject("Stmts" :> JArray([k \in 1..Len(s.statements) |->
                                           StmtJson(s.statements[k])]))
      [] s.kind = "Assign" ->
             JObject("Assign" :> JArray(<<PlaceJson(s.place), ExpJson(s.exp)>>))
      [] s.kind = "CallStmt" -> JObject("Call" :> FunCallJson(s.fun_call))
      [] s.kind = "If" ->
             JObject("If" :> JObject(("guard" :> ExpJson(s.guard))
                                     @@ ("tt" :> StmtJson(s.tt))
                                     @@ (IF s.ff = <<>> THEN <<>>
                                         ELSE "ff" :> StmtJson(s.ff[1]))))
      [] s.kind = "While" -> JObject("While" :> JArray(<<ExpJson(s.guard), StmtJson(s.body)>>))
      [] s.kind = "Return" ->
             JObject("Return" :> (IF s.exp = <<>> THEN JNull ELSE ExpJson(s.exp[1])))
      [] s.kind = "Break" -> JString("Break")
      [] s.kind = "Continue" -> JString("Continue")

DeclJson(d) == JObject(("name" :> JString(d.name)) @@ ("typ" :> TypeJson(d.type)))

DeclsJson(ds) == JArray([k \in 1..Len(ds) |-> DeclJson(ds[k])])

FunctionJson(f) ==
    JObject(("name" :> JString(f.name)) @@ ("prms" :> DeclsJson(f.params))
            @@ ("rettyp" :> TypeJson(f.rettype)) @@ ("locals" :> DeclsJson(f.locals))
            @@ ("stmts" :> JArray([k \in 1..Len(f.body.statements) |->
                                      StmtJson(f.body.statements[k])])))

StructJson(sd) == JObject(("name" :> JString(sd.name)) @@ ("fields" :> DeclsJson(sd.fields)))

ExternJson(ex) ==
    JObject(("name" :> JString(ex.name))
            @@ ("typ" :> TypeJson(FnType(ex.param_types, ex.rettype))))

ProgramJson(p) ==
    JObject(("structs" :> JArray([k \in 1..Len(p.structs) |-> StructJson(p.structs[k])]))
            @@ ("externs" :> JArray([k \in 1..Len(p.externs) |-> ExternJson(p.externs[k])]))
            @@ ("functions" :> JArray([k \in 1..Len(p.functions) |->
                                          FunctionJson(p.functions[k])])))

\* A file that is not JSON text.
Unparsable == [json |-> "parse_error"]

\* The root object of a program with the one function main, without locals,
\* whose "stmts" is the given JSON array.
FunJson(name, stmts) ==
    JObject(("name" :> JString(name)) @@ ("prms" :> JArray(<<>>))
            @@ ("rettyp" :> JString("Int")) @@ ("locals" :> JArray(<<>>))
            @@ ("stmts" :> stmts))

MainJson(stmts) == FunJson("main", stmts)

RootJson(functions) ==
    JObject(("structs" :> JArray(<<>>)) @@ ("externs" :> JArray(<<>>))
            @@ ("functions" :> JArray(functions)))

ReturnZeroJson == JObject("Return" :> JObject("Num" :> JNumber(0)))

\* If statements with every form of the else branch: no "ff", null, the
\* empty array, {"Stmts": []}, and lists that return or do not; the then
\* branch returns or not; alone in the body or followed by a Return.
IfJson(tt, ff) ==
    JObject("If" :> JObject(("guard" :> JObject("Num" :> JNumber(1))) @@ ("tt" :> tt) @@ ff))

ThenJsons == {JArray(<<ReturnZeroJson>>), JArray(<<>>), JArray(<<JString("Break")>>)}

ElseJsons ==
    {<<>>, "ff" :> JNull, "ff" :> JArray(<<>>), "ff" :> JObject("Stmts" :> JArray(<<>>)),
     "ff" :> JArray(<<ReturnZeroJson>>), "ff" :> JArray(<<JString("Continue")>>),
     "ff" :> ReturnZeroJson}

IfDocs ==
    {RootJson(<<MainJson(JArray(<<IfJson(tt, ff)>> \o tail))>>) :
        tt \in ThenJsons, ff \in ElseJsons, tail \in {<<>>, <<ReturnZeroJson>>}}

\* Malformed nodes: an unknown statement tag, an If without "tt", an Assign
\* of the wrong arity, an unknown operator, an unknown type name, a
\* non-object expression, a number where a name is expected.
BadStmtJsons ==
    {JObject("For" :> JArray(<<>>)),
     JObject("If" :> JObject("guard" :> JObject("Num" :> JNumber(1)))),
     JObject("Assign" :> JArray(<<JObject("Id" :> JString("x"))>>)),
     JObject("Assign" :> JArray(<<JObject("Num" :> JNumber(0)), JObject("Pow" :> JNull)>>)),
     JObject("Return" :> JObject("BinOp" :> JObject(("op" :> JString("Pow"))
                                                    @@ ("left" :> JObject("Num" :> JNumber(0)))
                                                    @@ ("right" :> JObject("Num" :> JNumber(0)))))),
     JObject("Return" :> JObject("NewSingle" :> JString("Bool"))),
     JObject("Return" :> JNumber(0)),
     JObject("Return" :> JObject("Id" :> JNumber(0))),
     JString("Skip")}

\* A malformed statement before or after well-formed ones, which may be
\* ill-typed; a malformed second function after a well-typed or ill-typed
\* main; a malformed function after a struct without fields; malformed
\* roots.
BadDocs ==
    {RootJson(<<MainJson(JArray(pre \o <<bad>> \o post))>>) :
        bad \in BadStmtJsons,
        pre \in {<<>>, <<JString("Break")>>},
        post \in {<<>>, <<ReturnZeroJson>>}}
    \cup {RootJson(<<MainJson(JArray(body)), MainJson(JArray(<<bad>>))>>) :
             bad \in BadStmtJsons, body \in {<<ReturnZeroJson>>, <<JString("Break")>>}}
    \cup {JObject(("structs" :> JArray(<<StructJson(StructDef("S", <<>>))>>))
                  @@ ("externs" :> JArray(<<>>))
                  @@ ("functions" :> JArray(<<MainJson(JArray(<<bad>>))>>))) :
             bad \in BadStmtJsons}
    \cup {RootJson(<<MainJson(JNull)>>),
          RootJson(<<JObject("name" :> JString("main"))>>),
          JObject("functions" :> JArray(<<>>)),
          JArray(<<>>),
          JObject(("structs" :> JArray(<<JObject("name" :> JString("S"))>>))
                  @@ ("externs" :> JArray(<<>>)) @@ ("functions" :> JArray(<<>>))),
          JObject(("structs" :> JArray(<<>>))
                  @@ ("externs" :> JArray(<<JObject(("name" :> JString("e"))
                                                    @@ ("typ" :> JString("Int")))>>))
                  @@ ("functions" :> JArray(<<>>))),
          Unparsable}

\* Two functions, each well-typed or ill-typed in its own way.
TwoFunctionDocs ==
    {RootJson(<<FunJson("f", JArray(<<b1>>)), MainJson(JArray(<<b2>>))>>) :
        b1 \in {ReturnZeroJson, JString("Break")},
        b2 \in {ReturnZeroJson, JString("Continue")}}

\* The programs whose text is handed to the driver.
DriverPrograms ==
    {Program(<<>>, <<>>,
             <<FunctionDef("main", <<>>, IntType, <<Decl("x", IntType)>>, Stmts(b))>>) :
        b \in UNION {BlocksOfSize(n) : n \in 0..MaxDriverStmtNodes}}
    \cup ExpPrograms

Docs == {ProgramJson(p) : p \in DriverPrograms} \cup IfDocs \cup TwoFunctionDocs \cup BadDocs

(***************************************************************************)
(* The driver's try block: Program::check run phase by phase, then the     *)
(* verdict printed.                                                        *)
(***************************************************************************)
Init ==
    /\ \/ prog \in NamePrograms
       \/ prog \in DeclPrograms
       \/ prog \in CallPrograms
       \/ prog \in StmtPrograms
       \/ prog \in ExpPrograms
    /\ pc = "names"
    /\ initial_gamma = EmptyMap
    /\ initial_delta = EmptyMap
    /\ si = 1
    /\ fi = 1
    /\ verdict = "running"
    /\ msg = ""
    /\ DriverIdle
    /\ TypesIdle

\* Mutant: the TypeError reaches the handler of std::exception.
Reject_AsUnexpected(m) ==
    /\ verdict' = "invalid"
    /\ msg' = m
    /\ stderr' = Append(stderr, "An unexpected error occurred: " \o m)
    /\ exitCode' = 1
    /\ pc' = "done"
    /\ UNCHANGED <<prog, doc, stdout, run, firstRun, argOrder>>

\* catch (const TypeError& e): "invalid: " << e.what(), and nothing more runs.
Reject(m) ==
    /\ verdict' = "invalid"
    /\ msg' = m
    /\ stdout' = Append(stdout, "invalid: " \o m)
    /\ exitCode' = 0
    /\ pc' = "done"
    /\ UNCHANGED <<prog, doc, stderr, run, firstRun, argOrder>>

\* Program::check goes on to `to`, or its TypeError reaches the driver.
Proceed(r, to) ==
    IF r.ok
    THEN /\ pc' = to
         /\ UNCHANGED <<prog, si, fi, verdict, msg, driverVars>>
    ELSE /\ Reject(r.msg)
         /\ UNCHANGED <<si, fi>>

\* Mutant: the structs are checked before main is looked for.
NamesStep_StructsFirst(r) ==
    IF r.ok
    THEN /\ initial_gamma' = construct_gamma(prog.externs, prog.functions)
         /\ initial_delta' = construct_delta(prog.structs)
         /\ pc' = "structs"
         /\ UNCHANGED <<prog, si, fi, verdict, msg, driverVars>>
    ELSE /\ Reject(r.msg)
         /\ UNCHANGED <<initial_gamma, initial_delta, si, fi>>

\* The duplicate-name tests, then construct_gamma and construct_delta.
NamesStep(r) ==
    IF r.ok
    THEN /\ initial_gamma' = construct_gamma(prog.externs, prog.functions)
         /\ initial_delta' = construct_delta(prog.structs)
         /\ pc' = "main"
         /\ UNCHANGED <<prog, si, fi, verdict, msg, driverVars>>
    ELSE /\ Reject(r.msg)
         /\ UNCHANGED <<initial_gamma, initial_delta, si, fi>>

NamesPhase ==
    /\ pc = "names"
    /\ NamesStep(CheckTopLevelNames(prog))
    /\ UNCHANGED typeVars

\* The search for main and the test of its signature.
MainPhase ==
    /\ pc = "main"
    /\ Proceed(CheckMain(prog), "structs")
    /\ UNCHANGED <<initial_gamma, initial_delta>>
    /\ UNCHANGED typeVars

StructStep(r) ==
    IF r.ok
    THEN /\ si' = si + 1
         /\ UNCHANGED <<prog, pc, fi, verdict, msg, driverVars>>
    ELSE /\ Reject(r.msg)
         /\ UNCHANGED <<si, fi>>

\* One iteration of the loop over the structs, or its exit.
StructsPhase ==
    /\ pc = "structs"
    /\ IF si <= Len(prog.structs)
       THEN StructStep(StructDef_check(prog.structs[si], initial_gamma, initial_delta))
       ELSE Proceed(Passed, "functions")
    /\ UNCHANGED <<initial_gamma, initial_delta>>
    /\ UNCHANGED typeVars

FunctionStep(r) ==
    IF r.ok
    THEN /\ fi' = fi + 1
         /\ UNCHANGED <<prog, pc, si, verdict, msg, driverVars>>
    ELSE /\ Reject(r.msg)
         /\ UNCHANGED <<si, fi>>

\* One iteration of the loop over the functions, or its exit: Program::check
\* returns and the driver prints "valid".
\* Mutant: the functions are visited in an order that changes from one run to
\* the next.
FunctionsPhase_HashOrder ==
    /\ pc = "functions"
    /\ IF fi <= Len(prog.functions)
       THEN FunctionStep(FunctionDef_check(
                prog.functions[IF run = 1 THEN fi ELSE Len(prog.functions) + 1 - fi],
                initial_gamma, initial_delta))
       ELSE /\ pc' = "done"
            /\ verdict' = "valid"
            /\ stdout' = Append(stdout, "valid")
            /\ exitCode' = 0
            /\ UNCHANGED <<prog, si, fi, msg, doc, stderr, run, firstRun, argOrder>>
    /\ UNCHANGED <<initial_gamma, initial_delta>>
    /\ UNCHANGED typeVars

\* Mutant: a function's parameters and locals are entered in the global
\* Gamma itself, where the functions after it find them.
FunctionsPhase_InPlace ==
    /\ pc = "functions"
    /\ IF fi <= Len(prog.functions)
       THEN /\ FunctionStep(FunctionDef_check(prog.functions[fi], initial_gamma,
                                              initial_delta))
            /\ initial_gamma' =
                   IF AddDecls(prog.functions[fi].name,
                               prog.functions[fi].params \o prog.functions[fi].locals, 1,
                               initial_gamma, {}).ok
                   THEN AddDecls(prog.functions[fi].name,
                                 prog.functions[fi].params \o prog.functions[fi].locals, 1,
                                 initial_gamma, {}).gamma
                   ELSE initial_gamma
       ELSE /\ pc' = "done"
            /\ verdict' = "valid"
            /\ stdout' = Append(stdout, "valid")
            /\ exitCode' = 0
            /\ UNCHANGED <<prog, si, fi, msg, doc, stderr, run, firstRun, argOrder>>
            /\ UNCHANGED initial_gamma
    /\ UNCHANGED initial_delta
    /\ UNCHANGED typeVars

FunctionsPhase ==
    /\ pc = "functions"
    /\ IF fi <= Len(prog.functions)
       THEN FunctionStep(FunctionDef_check(prog.functions[fi], initial_gamma,
                                           initial_delta))
       ELSE /\ pc' = "done"
            /\ verdict' = "valid"
            /\ stdout' = Append(stdout, "valid")
            /\ exitCode' = 0
            /\ UNCHANGED <<prog, si, fi, msg, doc, stderr, run, firstRun, argOrder>>
    /\ UNCHANGED <<initial_gamma, initial_delta>>
    /\ UNCHANGED typeVars

Next == NamesPhase \/ MainPhase \/ StructsPhase \/ FunctionsPhase

Spec == Init /\ [][Next]_vars

(***************************************************************************)
(* The driver, from the input file to its exit: the text is parsed, the    *)
(* AST built, Program::check run, and the outcome written.  A second run   *)
(* on the same input starts once the first has ended.                      *)
(***************************************************************************)
InitDriver ==
    /\ doc \in Docs
    /\ argOrder \in {"ltr", "rtl"}
    /\ pc = "parse"
    /\ prog = Program(<<>>, <<>>, <<>>)
    /\ initial_gamma = EmptyMap
    /\ initial_delta = EmptyMap
    /\ si = 1
    /\ fi = 1
    /\ verdict = "running"
    /\ msg = ""
    /\ stdout = <<>>
    /\ stderr = <<>>
    /\ exitCode = -1
    /\ run = 1
    /\ firstRun = NoRun
    /\ TypesIdle

\* A catch block that writes to std::cerr and returns 1.
Fail(line) ==
    /\ stderr' = Append(stderr, line)
    /\ exitCode' = 1
    /\ verdict' = "none"
    /\ pc' = "done"
    /\ UNCHANGED <<prog, initial_gamma, initial_delta, si, fi, msg, doc, stdout, run,
                   firstRun, argOrder>>

\* inputFile >> jsonAst
Parse ==
    /\ pc = "parse"
    /\ IF doc.json = "parse_error"
       THEN Fail("JSON parsing error")
       ELSE /\ pc' = "build"
            /\ UNCHANGED <<prog, initial_gamma, initial_delta, si, fi, verdict, msg,
                           driverVars>>
    /\ UNCHANGED typeVars

\* Mutant: what was built before the malformed node is checked.
BuildStep_CheckBuilt(r) ==
    /\ prog' = IF r.ok THEN r.node ELSE prog
    /\ pc' = "names"
    /\ UNCHANGED <<initial_gamma, initial_delta, si, fi, verdict, msg, driverVars>>

BuildStep(r) ==
    IF r.ok
    THEN /\ prog' = r.node
         /\ pc' = "names"
         /\ UNCHANGED <<initial_gamma, initial_delta, si, fi, verdict, msg, driverVars>>
    ELSE Fail("An unexpected error occurred: " \o r.what)

\* buildProgram(jsonAst)
Build ==
    /\ pc = "build"
    /\ BuildStep(buildProgram(doc))
    /\ UNCHANGED typeVars

\* The driver is started again on the same file.
Rerun ==
    /\ pc = "done"
    /\ run = 1
    /\ firstRun' = [stdout |-> stdout, stderr |-> stderr, exitCode |-> exitCode]
    /\ run' = 2
    /\ pc' = "parse"
    /\ prog' = Program(<<>>, <<>>, <<>>)
    /\ initial_gamma' = EmptyMap
    /\ initial_delta' = EmptyMap
    /\ si' = 1
    /\ fi' = 1
    /\ verdict' = "running"
    /\ msg' = ""
    /\ stdout' = <<>>
    /\ stderr' = <<>>
    /\ exitCode' = -1
    /\ UNCHANGED <<doc, argOrder, typeVars>>

NextDriver ==
    Parse \/ Build \/ NamesPhase \/ MainPhase \/ StructsPhase \/ FunctionsPhase \/ Rerun

SpecDriver == InitDriver /\ [][NextDriver]_vars

\* Program::check on the programs that vary one construct.
InitRules ==
    /\ prog \in RulePrograms
    /\ pc = "names"
    /\ initial_gamma = EmptyMap
    /\ initial_delta = EmptyMap
    /\ si = 1
    /\ fi = 1
    /\ verdict = "running"
    /\ msg = ""
    /\ DriverIdle
    /\ TypesIdle

SpecRules == InitRules /\ [][Next]_vars

(***************************************************************************)
(* Claims about typeEq and pickNonNil (checked under SpecTypes).           *)
(***************************************************************************)
Compared == tpc \in {"compared", "picked"}

\* C1: when neither argument is Nil at top level, typeEq(T, U) holds if and
\* only if T and U are structurally identical at every depth.
C1_StructuralIffNoTopNil ==
    (Compared /\ ~IsNil(t1) /\ ~IsNil(t2)) => (eqRes <=> SameType(t1, t2))

\* C2: Nil is typeEq to every Ptr and Array type in both argument orders, to
\* no Int, Struct or Fn type in either order, and to Nil.
C2_NilCompat ==
    Compared =>
        /\ (IsNil(t1) /\ (IsPtr(t2) \/ IsArray(t2))) => eqRes
        /\ (IsNil(t2) /\ (IsPtr(t1) \/ IsArray(t1))) => eqRes
        /\ (IsNil(t1) /\ (IsInt(t2) \/ IsStruct(t2) \/ IsFn(t2))) => ~eqRes
        /\ (IsNil(t2) /\ (IsInt(t1) \/ IsStruct(t1) \/ IsFn(t1))) => ~eqRes
        /\ (IsNil(t1) /\ IsNil(t2)) => eqRes

C2_Witness == tpc = "compared" /\ IsNil(t1) /\ IsArray(t2) /\ eqRes

\* C3: typeEq is reflexive and symmetric, also on types with Nil, Struct or
\* Fn nested inside them.
C3_ReflexiveSymmetric ==
    Compared =>
        /\ (t1 = t2) => eqRes
        /\ eqRes = typeEq(t2, t1)

C3_Witness ==
    /\ tpc = "compared"
    /\ t1 = PtrType(PtrType(IntType))
    /\ t2 = PtrType(NilType)
    /\ eqRes

\* C4: a pointer type and an array type are never typeEq, although Nil is
\* typeEq to both: typeEq(Ptr(T), Nil) and typeEq(Nil, Array(T)) hold while
\* typeEq(Ptr(T), Array(T)) does not.
C4_NotTransitiveThroughNil ==
    /\ (Compared /\ ((IsPtr(t1) /\ IsArray(t2)) \/ (IsArray(t1) /\ IsPtr(t2))))
          => ~eqRes
    /\ typeEq(PtrType(t1), NilType)
    /\ typeEq(NilType, ArrayType(t1))
    /\ ~typeEq(PtrType(t1), ArrayType(t1))

C4_Witness ==
    /\ tpc = "compared"
    /\ t1 = PtrType(IntType)
    /\ t2 = ArrayType(IntType)
    /\ ~eqRes

\* C5: for typeEq arguments, pickNonNil returns one of them, typeEq to both,
\* non-Nil when either is non-Nil, the first when neither is Nil, and Nil only
\* when both are Nil.
C5_PickNonNilLaw ==
    tpc = "picked" =>
        /\ picked \in {t1, t2}
        /\ typeEq(picked, t1)
        /\ typeEq(picked, t2)
        /\ (~IsNil(t1) \/ ~IsNil(t2)) => ~IsNil(picked)
        /\ (~IsNil(t1) /\ ~IsNil(t2)) => picked = t1
        /\ IsNil(picked) => (IsNil(t1) /\ IsNil(t2))

C5_Witness == tpc = "picked" /\ IsNil(t1) /\ IsPtr(t2) /\ picked = t2


(***************************************************************************)
(* Properties of Program::check, stated under Spec.                        *)
(***************************************************************************)
\* Some element of the sequence occurs in it more than once.
HasRepeat(names) ==
    \E i, j \in 1..Len(names) : i < j /\ names[i] = names[j]

\* The combined list of struct names, extern names and function names.
TopLevelNameList(p) == NamesOf(p.structs) \o NamesOf(p.externs) \o NamesOf(p.functions)

\* The positions of the functions named main.
Mains(p) == {i \in 1..Len(p.functions) : p.functions[i].name = "main"}

\* C6: a program in which a name occurs more than once among the struct,
\* extern and function names is rejected, whatever the name and the kinds of
\* the two definitions are.
C6_DuplicateTopLevelRejected ==
    (pc = "done" /\ HasRepeat(TopLevelNameList(prog))) => verdict = "invalid"

\* C7: a program reported valid has exactly one function named main, and it
\* has no parameters and return type Int.
C7_ValidHasOneMain ==
    verdict = "valid" =>
        /\ Cardinality(Mains(prog)) = 1
        /\ \A i \in Mains(prog) :
               prog.functions[i].params = <<>> /\ prog.functions[i].rettype = IntType

\* The program has no function main, or a main with a parameter or with a
\* return type other than Int.
MainMissingOrWrong(p) ==
    \/ Mains(p) = {}
    \/ \E i \in Mains(p) :
           p.functions[i].params # <<>> \/ p.functions[i].rettype # IntType

\* C8: a program without a function main, or whose main has a parameter or a
\* return type other than Int, never gets past the test of main and ends
\* rejected.
C8_MainRequired ==
    MainMissingOrWrong(prog) =>
        /\ pc \in {"names", "main", "done"}
        /\ pc = "done" => verdict = "invalid"

\* C8 witness: a program whose only flaw is a parameter of main has been
\* rejected by the test of main.
C8_Witness ==
    /\ pc = "done"
    /\ verdict = "invalid"
    /\ msg = "function 'main' exists but has wrong type, should be '() -> int'"
    /\ \E i \in Mains(prog) :
           prog.functions[i].params # <<>> /\ prog.functions[i].rettype = IntType

\* The names of the parameters followed by the names of the locals.
DeclNames(f) == NamesOf(f.params) \o NamesOf(f.locals)

\* C9: FunctionDef::check throws for every function in which a name occurs
\* more than once among its parameters and locals, and a program with such a
\* function is never reported valid.
C9_DuplicateDeclRejected ==
    \A i \in 1..Len(prog.functions) :
        HasRepeat(DeclNames(prog.functions[i])) =>
            /\ ~FunctionDef_check(prog.functions[i],
                                  construct_gamma(prog.externs, prog.functions),
                                  construct_delta(prog.structs)).ok
            /\ verdict # "valid"
            /\ pc = "functions" => fi <= i

\* C9 witness: a function whose parameter and local share a name, both of a
\* valid type, has been rejected by FunctionDef::check for the duplicate.
C9_Witness ==
    /\ pc = "done"
    /\ verdict = "invalid"
    /\ fi \in 1..Len(prog.functions)
    /\ \E j \in 1..Len(prog.functions[fi].params), k \in 1..Len(prog.functions[fi].locals) :
           prog.functions[fi].params[j].name = prog.functions[fi].locals[k].name
    /\ ~HasRepeat(NamesOf(prog.functions[fi].params))
    /\ msg = "Duplicate parameter/local name 'x' in function '"
             \o prog.functions[fi].name \o "'"

RECURSIVE CallsInExp(_), CallsInPlace(_), CallsInStmt(_)

\* The FunCall nodes of a place, an expression, a statement.
CallsInPlace(p) ==
    CASE p.kind = "Id" -> {}
      [] p.kind = "Deref" -> CallsInExp(p.exp)
      [] p.kind = "ArrayAccess" -> CallsInExp(p.array) \cup CallsInExp(p.index)
      [] p.kind = "FieldAccess" -> CallsInExp(p.ptr)

CallsInFunCall(fc) ==
    {fc} \cup CallsInExp(fc.callee)
         \cup UNION {CallsInExp(fc.args[k]) : k \in 1..Len(fc.args)}

CallsInExp(e) ==
    CASE e.kind = "Val" -> CallsInPlace(e.place)
      [] e.kind = "Num" -> {}
      [] e.kind = "Nil" -> {}
      [] e.kind = "Select" ->
             CallsInExp(e.guard) \cup CallsInExp(e.tt) \cup CallsInExp(e.ff)
      [] e.kind = "UnOp" -> CallsInExp(e.exp)
      [] e.kind = "BinOp" -> CallsInExp(e.left) \cup CallsInExp(e.right)
      [] e.kind = "NewSingle" -> {}
      [] e.kind = "NewArray" -> CallsInExp(e.size)
      [] e.kind = "CallExp" -> CallsInFunCall(e.fun_call)

CallsInStmt(s) ==
    CASE s.kind = "Stmts" ->
             UNION {CallsInStmt(s.statements[k]) : k \in 1..Len(s.statements)}
      [] s.kind = "Assign" -> CallsInPlace(s.place) \cup CallsInExp(s.exp)
      [] s.kind = "CallStmt" -> CallsInFunCall(s.fun_call)
      [] s.kind = "If" ->
             CallsInExp(s.guard) \cup CallsInStmt(s.tt)
                 \cup UNION {CallsInStmt(s.ff[k]) : k \in 1..Len(s.ff)}
      [] s.kind = "While" -> CallsInExp(s.guard) \cup CallsInStmt(s.body)
      [] s.kind = "Return" -> UNION {CallsInExp(s.exp[k]) : k \in 1..Len(s.exp)}
      [] s.kind = "Break" -> {}
      [] s.kind = "Continue" -> {}

\* The calls of main in the body of a function.
CallsOfMain(f) ==
    {fc \in CallsInStmt(f.body) : DirectIdName(fc.callee) = <<"main">>}

\* Environments without main, and with a variable main of a function-pointer
\* type or of type Int in scope.
MainEnvs(gamma) ==
    {gamma, MapPut(gamma, "main", FnPtrType), MapPut(gamma, "main", IntType)}

\* C10: a call whose callee is the identifier main gets the type error
\* "trying to call 'main'" from FunCall::check in every environment, with or
\* without a variable main in scope and whatever its arguments are, and a
\* program that contains such a call is never reported valid.
C10_CallOfMainRejected ==
    \A i \in 1..Len(prog.functions) :
        \A fc \in CallsOfMain(prog.functions[i]) :
            /\ \A gamma \in MainEnvs(construct_gamma(prog.externs, prog.functions)) :
                   FunCall_check(fc, gamma, construct_delta(prog.structs))
                       = TypeError("trying to call 'main'")
            /\ verdict # "valid"
            /\ pc = "functions" => fi <= i

\* C10 witness: a function with a local main of function-pointer type in
\* scope calls main in expression position and is rejected for the call.
C10_Witness ==
    /\ pc = "done"
    /\ verdict = "invalid"
    /\ msg = "trying to call 'main'"
    /\ fi \in 1..Len(prog.functions)
    /\ prog.functions[fi].locals = <<Decl("main", FnPtrType)>>
    /\ \E fc \in CallsOfMain(prog.functions[fi]) :
           CallExp(fc) \in {prog.functions[fi].body.statements[k].exp[1] :
                               k \in {n \in 1..Len(prog.functions[fi].body.statements) :
                                         /\ prog.functions[fi].body.statements[n].kind = "Return"
                                         /\ prog.functions[fi].body.statements[n].exp # <<>>}}


(***************************************************************************)
(* Properties of the statement rules, stated under Spec, of the program    *)
(* whose run has ended.                                                    *)
(***************************************************************************)
\* The environment FunctionDef::check gives the body of f: Gamma extended
\* with the parameters and locals.
FunctionScope(f) ==
    AddDecls(f.name, f.params \o f.locals, 1,
             construct_gamma(prog.externs, prog.functions), {})

ProgDelta == construct_delta(prog.structs)

RECURSIVE SubStmts(_, _)

\* The statements lying in s, s included, each with the inLoop flag the
\* rules hand it when s itself is checked with inLoop.
SubStmts(s, inLoop) ==
    {[stmt |-> s, inLoop |-> inLoop]} \cup
    CASE s.kind = "Stmts" ->
             UNION {SubStmts(s.statements[k], inLoop) : k \in 1..Len(s.statements)}
      [] s.kind = "If" ->
             SubStmts(s.tt, inLoop) \cup UNION {SubStmts(s.ff[k], inLoop) : k \in 1..Len(s.ff)}
      [] s.kind = "While" -> SubStmts(s.body, TRUE)
      [] OTHER -> {}

\* The functions of the program whose declarations are accepted.
ScopedFunctions ==
    {i \in 1..Len(prog.functions) : FunctionScope(prog.functions[i]).ok}

\* Stmt_check of a statement of function i in its context c.
CheckIn(i, s, inLoop) ==
    Stmt_check(s, FunctionScope(prog.functions[i]).gamma, ProgDelta,
               prog.functions[i].rettype, inLoop)

\* r is the result of a list whose statements have the results rs.
StmtsLaw(r, rs) ==
    IF \A k \in DOMAIN rs : rs[k].ok
    THEN r.ok /\ (r.returns <=> \E k \in DOMAIN rs : rs[k].returns)
    ELSE ~r.ok

\* C12: Stmts::check checks every statement of the list, those after a
\* statement that definitely returns included: when all are well-typed it
\* returns the disjunction of their results (false for the empty list), when
\* one is ill-typed it throws; so a program reported valid has no ill-typed
\* statement anywhere in a list, after a Return or not.
C12_StmtsChecksAll ==
    pc = "done" =>
        \A i \in ScopedFunctions :
            \A c \in SubStmts(prog.functions[i].body, FALSE) :
                c.stmt.kind = "Stmts" =>
                    /\ StmtsLaw(CheckIn(i, c.stmt, c.inLoop),
                                [k \in 1..Len(c.stmt.statements) |->
                                    CheckIn(i, c.stmt.statements[k], c.inLoop)])
                    /\ verdict = "valid" =>
                           \A k \in 1..Len(c.stmt.statements) :
                               CheckIn(i, c.stmt.statements[k], c.inLoop).ok

\* C12 witness: a body whose first statement is a well-typed Return and whose
\* second statement is ill-typed has been rejected for the second.
C12_Witness ==
    /\ pc = "done"
    /\ verdict = "invalid"
    /\ msg = "break outside loop"
    /\ Len(prog.functions) = 1
    /\ prog.functions[1].body = Stmts(<<ReturnZero, Break>>)

RECURSIVE ReturnOutsideWhile(_)

\* Some Return of s is not inside the body of a While of s.
ReturnOutsideWhile(s) ==
    CASE s.kind = "Return" -> TRUE
      [] s.kind = "Stmts" ->
             \E k \in 1..Len(s.statements) : ReturnOutsideWhile(s.statements[k])
      [] s.kind = "If" ->
             ReturnOutsideWhile(s.tt) \/ \E k \in 1..Len(s.ff) : ReturnOutsideWhile(s.ff[k])
      [] OTHER -> FALSE

\* r is the result of a While.
WhileLaw(r) == r.ok => ~r.returns

\* f, whose body has the result body, has the result r from FunctionDef::check.
NoReturnLaw(f, body, r) ==
    /\ ~r.ok
    /\ (body.ok /\ f.body.statements # <<>>) =>
           r = Thrown("function " \o f.name \o " may not execute a return")

\* C13: a well-typed While yields false whatever its guard and body are, so
\* a function all of whose Returns are inside While bodies is rejected, as
\* possibly not returning when nothing else is wrong with it.
C13_WhileNeverReturns ==
    pc = "done" =>
        \A i \in ScopedFunctions :
            /\ \A c \in SubStmts(prog.functions[i].body, FALSE) :
                   c.stmt.kind = "While" => WhileLaw(CheckIn(i, c.stmt, c.inLoop))
            /\ ~ReturnOutsideWhile(prog.functions[i].body) =>
                   /\ NoReturnLaw(prog.functions[i],
                                  CheckIn(i, prog.functions[i].body, FALSE),
                                  FunctionDef_check(prog.functions[i],
                                      construct_gamma(prog.externs, prog.functions),
                                      ProgDelta))
                   /\ verdict # "valid"

\* C13 witness: a function whose only Return is the body of a While has been
\* rejected as possibly not returning.
C13_Witness ==
    /\ pc = "done"
    /\ verdict = "invalid"
    /\ msg = "function main may not execute a return"
    /\ Len(prog.functions) = 1
    /\ prog.functions[1].body = Stmts(<<While(Num(1), Stmts(<<ReturnZero>>))>>)

RECURSIVE Outcomes(_), BlockOutcomes(_, _)

\* Running a statement whose outcomes are o and then, when it falls through,
\* what has the outcomes rest.
ThenOutcomes(o, rest) == (o \ {"fall"}) \cup (IF "fall" \in o THEN rest ELSE {})

\* The ways a run of the statements from position i on can end.
BlockOutcomes(ss, i) ==
    IF i > Len(ss) THEN {"fall"}
    ELSE ThenOutcomes(Outcomes(ss[i]), BlockOutcomes(ss, i + 1))

\* The ways a run of s can end, every guard being free to go either way:
\* "fall" off its end, "return", or leave by "break" or "continue" for the
\* enclosing loop.  A loop runs its body zero or more times; a break or a
\* false guard ends the loop, which then falls through.
Outcomes(s) ==
    CASE s.kind = "Return" -> {"return"}
      [] s.kind = "Break" -> {"break"}
      [] s.kind = "Continue" -> {"continue"}
      [] s.kind = "Stmts" -> BlockOutcomes(s.statements, 1)
      [] s.kind = "If" ->
             Outcomes(s.tt) \cup (IF s.ff = <<>> THEN {"fall"} ELSE Outcomes(s.ff[1]))
      [] s.kind = "While" -> {"fall"} \cup (Outcomes(s.body) \cap {"return"})
      [] OTHER -> {"fall"}

\* r is the checker's result for a statement with the outcomes o.
ReturnsLaw(r, o) == (r.ok /\ r.returns) => "fall" \notin o

\* C14: a statement accepted with returns = true has no run that falls off
\* its end without a Return, and the body of a function of a program reported
\* valid has no run that ends otherwise than by a Return.
C14_DefiniteReturnSound ==
    pc = "done" =>
        \A i \in ScopedFunctions :
            /\ \A c \in SubStmts(prog.functions[i].body, FALSE) :
                   ReturnsLaw(CheckIn(i, c.stmt, c.inLoop), Outcomes(c.stmt))
            /\ verdict = "valid" => Outcomes(prog.functions[i].body) = {"return"}

\* C14 witness: a program whose body is an If returning in both branches has
\* been reported valid.
C14_Witness ==
    /\ pc = "done"
    /\ verdict = "valid"
    /\ Len(prog.functions) = 1
    /\ prog.functions[1].body =
           Stmts(<<If(Num(1), Stmts(<<ReturnZero>>), <<Stmts(<<ReturnZero>>)>>)>>)

RECURSIVE JumpOutsideWhile(_)

\* Some Break or Continue of s is not inside the body of a While of s.
JumpOutsideWhile(s) ==
    CASE s.kind = "Break" -> TRUE
      [] s.kind = "Continue" -> TRUE
      [] s.kind = "Stmts" ->
             \E k \in 1..Len(s.statements) : JumpOutsideWhile(s.statements[k])
      [] s.kind = "If" ->
             JumpOutsideWhile(s.tt) \/ \E k \in 1..Len(s.ff) : JumpOutsideWhile(s.ff[k])
      [] OTHER -> FALSE

\* inside and outside are the results of a statement checked with inLoop
\* true and false; stray says one of its jumps is outside every loop of it.
\* With inLoop true no jump is refused, so inside fails only for another
\* reason.
JumpLaw(inside, outside, stray) ==
    inside.ok =>
        /\ outside.ok <=> ~stray
        /\ outside.ok => outside = inside
        /\ ~outside.ok => outside.msg \in {"break outside loop", "continue outside loop"}

\* C20: a Break or Continue is accepted exactly when it lies in the body of a
\* While of its function: every statement of a body, otherwise well-typed,
\* is accepted outside a loop iff none of its jumps is outside all of its
\* own loops, and no program with a jump outside every loop is reported valid.
C20_JumpsOnlyInLoops ==
    pc = "done" =>
        \A i \in ScopedFunctions :
            /\ \A c \in SubStmts(prog.functions[i].body, FALSE) :
                   JumpLaw(CheckIn(i, c.stmt, TRUE), CheckIn(i, c.stmt, FALSE),
                           JumpOutsideWhile(c.stmt))
            /\ JumpOutsideWhile(prog.functions[i].body) =>
                   /\ ~FunctionDef_check(prog.functions[i],
                                         construct_gamma(prog.externs, prog.functions),
                                         ProgDelta).ok
                   /\ verdict # "valid"

\* C20 witness: a program with a Break in the body of a While has been
\* reported valid.
C20_Witness ==
    /\ pc = "done"
    /\ verdict = "valid"
    /\ Len(prog.functions) = 1
    /\ prog.functions[1].body = Stmts(<<While(Num(1), Stmts(<<Break>>)), ReturnZero>>)

(***************************************************************************)
(* Properties of the assignment and call rules, stated under Spec.         *)
(***************************************************************************)
\* Place_check / Exp_check of a place or expression of function i.
PlaceIn(i, p) == Place_check(p, FunctionScope(prog.functions[i]).gamma, ProgDelta)
ExpIn(i, e) == Exp_check(e, FunctionScope(prog.functions[i]).gamma, ProgDelta)

\* The type is neither Struct, Fn nor Nil.
Assignable(t) == ~IsStruct(t) /\ ~IsFn(t) /\ ~IsNil(t)

\* r is the result of an assignment whose place and expression have the
\* results lhs and rhs.
AssignLaw(r, lhs, rhs) ==
    /\ r.ok <=> /\ lhs.ok
                /\ rhs.ok
                /\ Assignable(lhs.type)
                /\ typeEq(lhs.type, rhs.type)
    /\ r.ok => ~r.returns
    /\ (lhs.ok /\ rhs.ok) =>
           /\ (IsNil(rhs.type) /\ (IsPtr(lhs.type) \/ IsArray(lhs.type))) => r.ok
           /\ (IsPtr(lhs.type) /\ IsArray(rhs.type)) => ~r.ok
           /\ (IsArray(lhs.type) /\ IsPtr(rhs.type)) => ~r.ok

\* C18: an assignment is accepted exactly when its place's type is not
\* Struct, Fn or Nil and typeEq holds between the two sides, and then yields
\* false; nil goes into a pointer or array place, a pointer and an array
\* never go into each other.
C18_AssignRule ==
    pc = "done" =>
        \A i \in ScopedFunctions :
            \A c \in SubStmts(prog.functions[i].body, FALSE) :
                c.stmt.kind = "Assign" =>
                    /\ AssignLaw(CheckIn(i, c.stmt, c.inLoop), PlaceIn(i, c.stmt.place),
                                 ExpIn(i, c.stmt.exp))
                    /\ verdict = "valid" => CheckIn(i, c.stmt, c.inLoop).ok

\* C18 witness: a program that assigns nil to a pointer variable has been
\* reported valid.
C18_Witness ==
    /\ pc = "done"
    /\ verdict = "valid"
    /\ Len(prog.functions) = 2
    /\ prog.functions[1].body = Stmts(<<Assign(Id("p"), NilExp), ReturnZero>>)

\* The function type a callee type gives access to: the type itself when it
\* is Fn(Ts, R), what it points to when it is Ptr(Fn(Ts, R)).
Signature(t) ==
    IF t.tag = "Fn" THEN <<t>>
    ELSE IF t.tag = "Ptr" /\ t.pointeeType.tag = "Fn" THEN <<t.pointeeType>>
    ELSE <<>>

\* The arguments with the results as fit the signature sig.
ArgsFit(as, sig) ==
    /\ sig # <<>>
    /\ Len(as) = Len(sig[1].paramTypes)
    /\ \A k \in 1..Len(as) : as[k].ok /\ typeEq(as[k].type, sig[1].paramTypes[k])

\* r is the result of a call whose callee and arguments have the results
\* callee and as.
CallLaw(r, callee, as) ==
    /\ r.ok <=> (callee.ok /\ ArgsFit(as, IF callee.ok THEN Signature(callee.type) ELSE <<>>))
    /\ r.ok => r.type = Signature(callee.type)[1].returnType

\* C19: a call whose callee is not the identifier main is accepted exactly
\* when the callee has type Fn(Ts, R) or Ptr(Fn(Ts, R)), there are as many
\* arguments as Ts and each argument's type is typeEq to its parameter type;
\* its type is then R.
C19_CallRule ==
    pc = "done" =>
        \A i \in ScopedFunctions :
            \A fc \in CallsInStmt(prog.functions[i].body) \ CallsOfMain(prog.functions[i]) :
                /\ CallLaw(FunCall_check(fc, FunctionScope(prog.functions[i]).gamma, ProgDelta),
                           ExpIn(i, fc.callee),
                           [k \in 1..Len(fc.args) |-> ExpIn(i, fc.args[k])])
                /\ verdict = "valid" =>
                       FunCall_check(fc, FunctionScope(prog.functions[i]).gamma, ProgDelta).ok

\* C19 witness: a program that calls g, of type ptr(fn), with nil for its
\* pointer parameter and assigns the result has been reported valid.
C19_Witness ==
    /\ pc = "done"
    /\ verdict = "valid"
    /\ Len(prog.functions) = 2
    /\ prog.functions[1].body =
           Stmts(<<Assign(Id("p"), CallExp(FunCall(Val(Id("g")), <<NilExp>>))), ReturnZero>>)

(***************************************************************************)
(* Properties of the driver, stated under SpecDriver.                      *)
(***************************************************************************)
\* The program of the input has been built and not yet been dropped.
ProgramBuilt == pc \in {"names", "main", "structs", "functions", "done"} /\ verdict # "none"

\* r is the result of an If whose then branch has the result tt and whose
\* else branch, when it has one, the result ff.
IfLaw(r, tt, hasElse, ff) ==
    r.ok => (r.returns <=> (tt.returns /\ hasElse /\ ff.returns))

\* The "ff" of the If object j asks for no else branch.
ElseAbsentJson(j) ==
    \/ ~contains(j, "ff")
    \/ is_null(at(j, "ff"))
    \/ is_array(at(j, "ff")) /\ empty(at(j, "ff"))

\* s, with the result r, is the statement built from the If object j.
NoElseLaw(j, s, r) ==
    ElseAbsentJson(j) => s.kind = "If" /\ s.ff = <<>> /\ (r.ok => ~r.returns)

\* C11: a well-typed If returns the conjunction of what its then and else
\* branches return, and false when it has no else branch; an If whose "ff"
\* is missing, null or the empty array is built without else branch, so it
\* returns false although its then branch returns, and a function whose body
\* is that If alone is not reported valid.
C11_IfReturnsBoth ==
    /\ \A i \in ScopedFunctions :
           \A c \in SubStmts(prog.functions[i].body, FALSE) :
               c.stmt.kind = "If" =>
                   IfLaw(CheckIn(i, c.stmt, c.inLoop),
                         CheckIn(i, c.stmt.tt, c.inLoop),
                         c.stmt.ff # <<>>,
                         IF c.stmt.ff # <<>> THEN CheckIn(i, c.stmt.ff[1], c.inLoop)
                         ELSE OkStmt(TRUE))
    /\ (doc \in IfDocs /\ ProgramBuilt) =>
           /\ NoElseLaw(doc.fields["functions"].items[1].fields["stmts"].items[1].fields["If"],
                        prog.functions[1].body.statements[1],
                        CheckIn(1, prog.functions[1].body.statements[1], FALSE))
           /\ ( /\ ElseAbsentJson(doc.fields["functions"].items[1].fields["stmts"].items[1].fields["If"])
                /\ Len(prog.functions[1].body.statements) = 1
                /\ pc = "done" ) => verdict = "invalid"

\* C11 witness: the function whose body is an If with a returning then branch
\* and the empty array as "ff" has been rejected as possibly not returning.
C11_Witness ==
    /\ pc = "done"
    /\ doc = RootJson(<<MainJson(JArray(<<IfJson(JArray(<<ReturnZeroJson>>),
                                                 "ff" :> JArray(<<>>))>>))>>)
    /\ prog.functions[1].body = Stmts(<<If(Num(1), Stmts(<<ReturnZero>>), <<>>)>>)
    /\ verdict = "invalid"
    /\ msg = "function main may not execute a return"
    /\ stdout = <<"invalid: function main may not execute a return">>

\* The three ways a run ends.
Outcome_Valid == stdout = <<"valid">> /\ stderr = <<>> /\ exitCode = 0

Outcome_Invalid ==
    /\ Len(stdout) = 1
    /\ stdout[1] = "invalid: " \o msg
    /\ stderr = <<>>
    /\ exitCode = 0

Outcome_Failure == stdout = <<>> /\ Len(stderr) = 1 /\ exitCode = 1

\* The run ended as the result r of building the AST requires.
BuildLaw(r) ==
    /\ Outcome_Failure <=> ~r.ok
    /\ r.ok => (verdict \in {"valid", "invalid"} /\ prog = r.node)

\* C15: a run ends in exactly one of three ways: "valid" on stdout and exit
\* 0 when the AST was built and no TypeError raised, one line "invalid: ..."
\* on stdout and exit 0 when a TypeError was raised, one line on stderr,
\* nothing on stdout and exit 1 when the text or the AST was malformed; a
\* TypeError never gives exit 1 and a malformed input never a verdict.
C15_ThreeOutcomes ==
    pc = "done" =>
        /\ Outcome_Valid \/ Outcome_Invalid \/ Outcome_Failure
        /\ ~(Outcome_Valid /\ Outcome_Invalid)
        /\ ~(Outcome_Valid /\ Outcome_Failure)
        /\ ~(Outcome_Invalid /\ Outcome_Failure)
        /\ Outcome_Valid <=> verdict = "valid"
        /\ Outcome_Invalid <=> verdict = "invalid"
        /\ Outcome_Failure <=> verdict = "none"
        /\ IF doc.json = "parse_error" THEN Outcome_Failure ELSE BuildLaw(buildProgram(doc))

\* C15 witness: an input whose first statement is ill-typed and whose second
\* statement has an unknown tag has ended with a message on stderr, exit 1
\* and no verdict.
C15_Witness ==
    /\ pc = "done"
    /\ doc = RootJson(<<MainJson(JArray(<<JString("Break"), JObject("For" :> JArray(<<>>)),
                                          ReturnZeroJson>>))>>)
    /\ stdout = <<>>
    /\ stderr = <<"An unexpected error occurred: Unknown statement kind object: For">>
    /\ exitCode = 1

IllTyped(i, ss, k, inLoop) == ~CheckIn(i, ss[k], inLoop).ok

\* The position of the leftmost ill-typed statement of ss.
Leftmost(i, ss, inLoop) ==
    CHOOSE j \in 1..Len(ss) :
        /\ IllTyped(i, ss, j, inLoop)
        /\ \A k \in 1..(j - 1) : ~IllTyped(i, ss, k, inLoop)

\* The list with the result r throws what its leftmost ill-typed statement
\* throws, first, and what the list cut after that statement throws, cut.
FirstErrorLaw(r, first, cut) == ~r.ok /\ r = first /\ r = cut

\* The statement lists of the program obey FirstErrorLaw, and at most one
\* line has been written.
FirstErrorOnly ==
    /\ \A i \in ScopedFunctions :
           \A c \in SubStmts(prog.functions[i].body, FALSE) :
               ( /\ c.stmt.kind = "Stmts"
                 /\ \E k \in 1..Len(c.stmt.statements) :
                        IllTyped(i, c.stmt.statements, k, c.inLoop) ) =>
                   FirstErrorLaw(
                       CheckIn(i, c.stmt, c.inLoop),
                       CheckIn(i, c.stmt.statements[Leftmost(i, c.stmt.statements, c.inLoop)],
                               c.inLoop),
                       CheckIn(i, Stmts(SubSeq(c.stmt.statements, 1,
                                               Leftmost(i, c.stmt.statements, c.inLoop))),
                               c.inLoop))
    /\ Len(stdout) + Len(stderr) <= 1
    /\ verdict = "invalid" => stdout = <<"invalid: " \o msg>> /\ stderr = <<>>

\* Checking a function whose body has an ill-typed statement ends the run
\* with the diagnostic of the leftmost ill-typed statement of the body.
FirstErrorEnds ==
    ( /\ pc = "functions"
      /\ fi \in ScopedFunctions
      /\ \E k \in 1..Len(prog.functions[fi].body.statements) :
             IllTyped(fi, prog.functions[fi].body.statements, k, FALSE) ) =>
        /\ pc' = "done"
        /\ verdict' = "invalid"
        /\ msg' = CheckIn(fi, prog.functions[fi].body.statements[
                              Leftmost(fi, prog.functions[fi].body.statements, FALSE)],
                          FALSE).msg
        /\ stdout' = <<"invalid: " \o msg'>>

\* C17: a statement list with ill-typed statements throws the error of the
\* leftmost of them, the same error as the list cut after that statement, so
\* nothing to its right has a say; that error ends the run, and the run writes
\* one diagnostic and no more.
C17_FirstErrorTerminates == []FirstErrorOnly /\ [][FirstErrorEnds]_vars

\* C17 witness: a body of two ill-typed statements has been rejected with the
\* diagnostic of the first and nothing else written.
C17_Witness ==
    /\ pc = "done"
    /\ Len(prog.functions) = 1
    /\ prog.functions[1].body = Stmts(<<Break, Continue>>)
    /\ stdout = <<"invalid: break outside loop">>
    /\ stderr = <<>>

(***************************************************************************)
(* Properties of the rules for single constructs, stated under SpecRules,  *)
(* of the program whose run has ended.                                     *)
(***************************************************************************)
\* r is the result of a Return in a function of return type returnType; e is
\* the result of its expression when it has one.
ReturnLaw(r, hasExp, e, returnType) ==
    /\ r.ok <=> (hasExp /\ e.ok /\ typeEq(e.type, returnType))
    /\ r.ok => r.returns
    /\ (hasExp /\ e.ok /\ IsNil(e.type) /\ (IsPtr(returnType) \/ IsArray(returnType))) => r.ok

\* C21: a Return with an expression is accepted exactly when typeEq holds
\* between the expression's type and the function's return type, nil for a
\* pointer or array return type included, and then yields true; a Return
\* without expression, which {"Return": null} is built to, is rejected
\* whatever the return type is.
C21_ReturnRule ==
    pc = "done" =>
        /\ buildStmt(JObject("Return" :> JNull)) = Built(Return(<<>>))
        /\ \A i \in ScopedFunctions :
               \A c \in SubStmts(prog.functions[i].body, FALSE) :
                   c.stmt.kind = "Return" =>
                       /\ ReturnLaw(CheckIn(i, c.stmt, c.inLoop),
                                    c.stmt.exp # <<>>,
                                    IF c.stmt.exp # <<>> THEN ExpIn(i, c.stmt.exp[1])
                                    ELSE TypeError(""),
                                    prog.functions[i].rettype)
                       /\ verdict = "valid" => CheckIn(i, c.stmt, c.inLoop).ok

\* C21 witness: a program whose function h returns nil under the return type
\* ptr(int) has been reported valid.
C21_Witness ==
    /\ pc = "done"
    /\ verdict = "valid"
    /\ Len(prog.functions) = 3
    /\ prog.functions[2].rettype = PtrType(IntType)
    /\ prog.functions[2].body = Stmts(<<Return(<<NilExp>>)>>)

\* The names of the declarations ds are pairwise distinct.
DistinctNames(ds) == \A j, k \in 1..Len(ds) : ds[j].name = ds[k].name => j = k

\* r is the result of StructDef::check for a struct with the fields fs.
StructLaw(r, fs) ==
    r.ok <=> /\ fs # <<>>
             /\ DistinctNames(fs)
             /\ \A k \in 1..Len(fs) :
                    ~IsNil(fs[k].type) /\ ~IsStruct(fs[k].type) /\ ~IsFn(fs[k].type)

\* C22: a struct definition is accepted exactly when it has a field, its
\* field names are pairwise distinct and no field has the type Nil, Struct
\* or Fn at top level; a field that is a pointer to a struct, the struct
\* itself included, does not stand in the way; a program reported valid has
\* only accepted structs.
C22_StructRule ==
    pc = "done" =>
        \A k \in 1..Len(prog.structs) :
            /\ StructLaw(StructDef_check(prog.structs[k],
                                         construct_gamma(prog.externs, prog.functions),
                                         ProgDelta),
                         prog.structs[k].fields)
            /\ verdict = "valid" =>
                   StructDef_check(prog.structs[k],
                                   construct_gamma(prog.externs, prog.functions),
                                   ProgDelta).ok

\* C22 witness: a program whose struct S has a field of type ptr(S) and a
\* field of type int has been reported valid.
C22_Witness ==
    /\ pc = "done"
    /\ verdict = "valid"
    /\ prog.structs =
           <<StructDef("S", <<Decl("x", PtrType(StructType("S"))), Decl("y", IntType)>>)>>

\* construct_gamma has run: the duplicate-name tests passed.
GammaBuilt == pc # "names" /\ CheckTopLevelNames(prog).ok

\* The names of the externs, and of the functions not called main.
GlobalNames ==
    {prog.externs[k].name : k \in 1..Len(prog.externs)}
    \cup ({prog.functions[k].name : k \in 1..Len(prog.functions)} \ {"main"})

\* Gamma binds the externs to their Fn type, the functions other than main
\* to the pointer to theirs, and nothing else.
GammaBindings ==
    /\ DOMAIN initial_gamma = GlobalNames
    /\ \A k \in 1..Len(prog.externs) :
           initial_gamma[prog.externs[k].name] =
               FnType(prog.externs[k].param_types, prog.externs[k].rettype)
    /\ \A k \in 1..Len(prog.functions) :
           prog.functions[k].name # "main" =>
               initial_gamma[prog.functions[k].name] =
                   PtrType(FnType([j \in 1..Len(prog.functions[k].params) |->
                                      prog.functions[k].params[j].type],
                                  prog.functions[k].rettype))

\* Function i declares no parameter or local called main.
NoMainDecl(i) ==
    \A k \in 1..Len(prog.functions[i].params \o prog.functions[i].locals) :
        (prog.functions[i].params \o prog.functions[i].locals)[k].name # "main"

C23_ExternMainBound ==
    /\ pc = "main"
    /\ prog.externs = <<Extern("main", <<>>, IntType)>>
    /\ initial_gamma["main"] = FnType(<<>>, IntType)

\* The declarations of function i: its parameters, then its locals.
DeclsOf(i) == prog.functions[i].params \o prog.functions[i].locals

\* local is global overridden by the declarations ds and nothing more.
ShadowLaw(local, global, ds) ==
    /\ DOMAIN local = DOMAIN global \cup {ds[k].name : k \in 1..Len(ds)}
    /\ \A k \in 1..Len(ds) : local[ds[k].name] = ds[k].type
    /\ \A n \in DOMAIN global :
           (\A k \in 1..Len(ds) : ds[k].name # n) => local[n] = global[n]

\* The run ended, or goes on, as the check of function fi against the global
\* Gamma and Delta of the program requires.
FunctionFrame ==
    (pc = "functions" /\ fi <= Len(prog.functions)) =>
        /\ initial_gamma' = initial_gamma
        /\ initial_delta' = initial_delta
        /\ pc' = "done" <=>
               ~FunctionDef_check(prog.functions[fi],
                                  construct_gamma(prog.externs, prog.functions),
                                  construct_delta(prog.structs)).ok

\* Gamma and Delta are what construct_gamma and construct_delta built, and
\* the environment of each function is Gamma overridden by its declarations.
GlobalsKept ==
    GammaBuilt =>
        /\ initial_gamma = construct_gamma(prog.externs, prog.functions)
        /\ initial_delta = construct_delta(prog.structs)
        /\ \A i \in ScopedFunctions :
               ShadowLaw(FunctionScope(prog.functions[i]).gamma, initial_gamma, DeclsOf(i))

\* C24: checking a function leaves the global Gamma and Delta as they were
\* built; the function's own environment is Gamma with its parameters and
\* locals laid over the global bindings of the same names; every function is
\* accepted or rejected as its check against the global Gamma requires,
\* whatever the functions before it declared.
C24_GlobalsUnchanged == []GlobalsKept /\ [][FunctionFrame]_vars

\* C24 witness: a program has been reported valid in which main declares a
\* pointer e and assigns nil to it, and g, checked after main, calls the
\* extern e.
C24_Witness ==
    /\ pc = "done"
    /\ verdict = "valid"
    /\ Len(prog.functions) = 2
    /\ prog.functions[1].name = "main"
    /\ prog.functions[1].locals = <<Decl("i", IntType), Decl("e", PtrType(IntType))>>
    /\ prog.functions[1].body = Stmts(<<Assign(Id("e"), NilExp), ReturnZero>>)
    /\ prog.functions[2].body =
           Stmts(<<Assign(Id("x"), CallExp(FunCall(Val(Id("e")), <<Num(0)>>))),
                   Return(<<Val(Id("x"))>>)>>)
    /\ initial_gamma["e"] = FnType(<<IntType>>, IntType)

(***************************************************************************)
(* The order of the phases of Program::check, stated under Spec.           *)
(***************************************************************************)
\* The result of checking struct k / function k of the program against the
\* Gamma and Delta of the program.
StructResult(k) ==
    StructDef_check(prog.structs[k], construct_gamma(prog.externs, prog.functions),
                    construct_delta(prog.structs))

FunctionResult(k) ==
    FunctionDef_check(prog.functions[k], construct_gamma(prog.externs, prog.functions),
                      construct_delta(prog.structs))

\* The first of the results rs that is a rejection.
FirstThrown(rs) ==
    rs[CHOOSE j \in 1..Len(rs) : ~rs[j].ok /\ \A k \in 1..(j - 1) : rs[k].ok]

\* What the run must end with when the phases have the results names and
\* main, and the structs and functions, in listed order, ss and fs.
PhaseLaw(names, main, ss, fs) ==
    IF ~names.ok THEN verdict = "invalid" /\ msg = names.msg
    ELSE IF ~main.ok THEN verdict = "invalid" /\ msg = main.msg
    ELSE IF \E k \in 1..Len(ss) : ~ss[k].ok
         THEN verdict = "invalid" /\ msg = FirstThrown(ss).msg
    ELSE IF \E k \in 1..Len(fs) : ~fs[k].ok
         THEN verdict = "invalid" /\ msg = FirstThrown(fs).msg
    ELSE verdict = "valid"

\* C25: the run ends with the diagnostic of the first phase that rejects, in
\* the order duplicate names, main, structs as listed, functions as listed;
\* structs are checked only when the names and main passed, and the k-th
\* only when those before it passed; functions only when every struct
\* passed as well; so a program without main is given the missing-main
\* diagnostic whatever its structs and functions are.
C25_PhaseOrder ==
    /\ pc = "done" =>
           PhaseLaw(CheckTopLevelNames(prog), CheckMain(prog),
                    [k \in 1..Len(prog.structs) |-> StructResult(k)],
                    [k \in 1..Len(prog.functions) |-> FunctionResult(k)])
    /\ pc \in {"main", "structs", "functions"} => CheckTopLevelNames(prog).ok
    /\ pc \in {"structs", "functions"} => CheckMain(prog).ok
    /\ pc = "structs" => \A k \in 1..(si - 1) : StructResult(k).ok
    /\ pc = "functions" =>
           /\ \A k \in 1..Len(prog.structs) : StructResult(k).ok
           /\ \A k \in 1..(fi - 1) : FunctionResult(k).ok
    /\ (pc = "done" /\ CheckTopLevelNames(prog).ok /\ Mains(prog) = {}) =>
           msg = "no 'main' function with type '() -> int' exists"

\* C25 witness: a program without main whose struct is empty has been
\* rejected for the missing main.
C25_Witness ==
    /\ pc = "done"
    /\ verdict = "invalid"
    /\ msg = "no 'main' function with type '() -> int' exists"
    /\ Mains(prog) = {}
    /\ \E k \in 1..Len(prog.structs) : ~StructResult(k).ok

\* The expressions assigned in function i.
AssignedIn(i) ==
    {c.stmt.exp : c \in {d \in SubStmts(prog.functions[i].body, FALSE) :
                            d.stmt.kind = "Assign"}}

\* r is the result of a binary operation op whose operands have the results
\* l and rr.
BinOpLaw(r, op, l, rr) ==
    /\ r.ok <=>
           /\ l.ok /\ rr.ok
           /\ IF op \in {"Eq", "NotEq"}
              THEN /\ typeEq(l.type, rr.type)
                   /\ ~IsStruct(l.type) /\ ~IsFn(l.type)
                   /\ ~IsStruct(rr.type) /\ ~IsFn(rr.type)
              ELSE IsInt(l.type) /\ IsInt(rr.type)
    /\ r.ok => r.type = IntType
    /\ (op \in {"Eq", "NotEq"} /\ l.ok /\ rr.ok) =>
           /\ (IsInt(l.type) /\ IsInt(rr.type)) => r.ok
           /\ (IsPtr(l.type) /\ IsNil(rr.type)) => r.ok
           /\ (IsNil(l.type) /\ IsNil(rr.type)) => r.ok
           /\ (IsPtr(l.type) /\ IsFn(l.type.pointeeType) /\ l.type = rr.type) => r.ok
           /\ (IsFn(l.type) /\ IsFn(rr.type)) => ~r.ok
           /\ (IsStruct(l.type) /\ IsStruct(rr.type)) => ~r.ok

\* C26: Eq and NotEq are accepted, with result int, exactly when typeEq
\* holds of the operand types and neither is a struct or a function type:
\* int with int, a pointer with nil, nil with nil and two function names
\* are accepted, two externs and two structs are rejected; each of the ten
\* other operators is accepted, with result int, exactly when both operands
\* are int; a program reported valid has only accepted operations.
C26_BinOpRule ==
    pc = "done" =>
        \A i \in ScopedFunctions :
            \A e \in AssignedIn(i) :
                e.kind = "BinOp" =>
                    /\ BinOpLaw(ExpIn(i, e), e.op, ExpIn(i, e.left), ExpIn(i, e.right))
                    /\ verdict = "valid" => ExpIn(i, e).ok

\* C26 witness: the program that assigns g == g, the comparison of a
\* function's name with itself, has been reported valid.
C26_Witness ==
    /\ pc = "done"
    /\ verdict = "valid"
    /\ prog = RuleProgram(Assign(Id("i"), BinOp("Eq", Val(Id("g")), Val(Id("g")))))

\* r is the result of a select whose guard and branches have the results g,
\* t and f.
SelectLaw(r, g, t, f) ==
    /\ r.ok <=> (g.ok /\ IsInt(g.type) /\ t.ok /\ f.ok /\ typeEq(t.type, f.type))
    /\ r.ok =>
           /\ r.type = pickNonNil(t.type, f.type)
           /\ (IsNil(t.type) /\ ~IsNil(f.type)) => r.type = f.type
           /\ (IsNil(f.type) /\ ~IsNil(t.type)) => r.type = t.type
           /\ IsNil(r.type) <=> (IsNil(t.type) /\ IsNil(f.type))

\* C27: a select is accepted exactly when its guard is int and typeEq holds
\* of the types of its branches; its type is then the branch type that is not
\* nil, whichever branch the nil is in, and nil only when both branches are
\* nil; a program reported valid has only accepted selects, each compatible
\* with the variable it is assigned to.
C27_SelectRule ==
    pc = "done" =>
        \A i \in ScopedFunctions :
            \A c \in SubStmts(prog.functions[i].body, FALSE) :
                (c.stmt.kind = "Assign" /\ c.stmt.exp.kind = "Select") =>
                    /\ SelectLaw(ExpIn(i, c.stmt.exp), ExpIn(i, c.stmt.exp.guard),
                                 ExpIn(i, c.stmt.exp.tt), ExpIn(i, c.stmt.exp.ff))
                    /\ verdict = "valid" =>
                           /\ ExpIn(i, c.stmt.exp).ok
                           /\ typeEq(PlaceIn(i, c.stmt.place).type,
                                     pickNonNil(ExpIn(i, c.stmt.exp.tt).type,
                                                ExpIn(i, c.stmt.exp.ff).type))

\* C27 witness: the program that assigns the select of nil and the array a
\* to a has been reported valid, and that select has the type array(int).
C27_Witness ==
    /\ pc = "done"
    /\ verdict = "valid"
    /\ prog = RuleProgram(Assign(Id("a"), Select(Num(0), NilExp, Val(Id("a")))))
    /\ ExpIn(1, Select(Num(0), NilExp, Val(Id("a")))) = Ok(ArrayType(IntType))

\* The places that function i assigns to or assigns the value of.
AccessedIn(i) ==
    UNION {{c.stmt.place} \cup
           (IF c.stmt.exp.kind = "Val" THEN {c.stmt.exp.place} ELSE {}) :
              c \in {d \in SubStmts(prog.functions[i].body, FALSE) :
                        d.stmt.kind = "Assign"}}

\* r is the result of a dereference whose operand has the result o.
DerefLaw(r, o) ==
    /\ r.ok <=> (o.ok /\ IsPtr(o.type))
    /\ r.ok => r.type = o.type.pointeeType
    /\ (o.ok /\ IsNil(o.type)) => ~r.ok

\* r is the result of an array access whose array and index have the
\* results a and k.
ArrayAccessLaw(r, a, k) ==
    /\ r.ok <=> (a.ok /\ k.ok /\ IsInt(k.type) /\ IsArray(a.type))
    /\ r.ok => r.type = a.type.elementType
    /\ (a.ok /\ IsNil(a.type)) => ~r.ok

\* r is the result of the access to field f of an operand with the result
\* b, under the struct environment delta.
FieldAccessLaw(r, b, f, delta) ==
    /\ r.ok <=> /\ b.ok
                /\ IsPtr(b.type)
                /\ IsStruct(b.type.pointeeType)
                /\ b.type.pointeeType.name \in DOMAIN delta
                /\ f \in DOMAIN delta[b.type.pointeeType.name]
    /\ r.ok => r.type = delta[b.type.pointeeType.name][f]
    /\ (b.ok /\ IsNil(b.type)) => ~r.ok

PlaceLaw(i, p) ==
    CASE p.kind = "Deref" -> DerefLaw(PlaceIn(i, p), ExpIn(i, p.exp))
      [] p.kind = "ArrayAccess" ->
             ArrayAccessLaw(PlaceIn(i, p), ExpIn(i, p.array), ExpIn(i, p.index))
      [] p.kind = "FieldAccess" ->
             FieldAccessLaw(PlaceIn(i, p), ExpIn(i, p.ptr), p.field, ProgDelta)
      [] OTHER -> TRUE

\* C28: a dereference is accepted only of an operand of type ptr(T), with
\* type T; an array access only with an index of type int on an operand of
\* type array(T), with type T; a field access only on an operand of type
\* ptr(struct S) with S defined and the field declared in S, with the
\* declared type of the field; an operand of type nil is rejected by all
\* three; a program reported valid has only accepted places.
C28_PlaceRules ==
    pc = "done" =>
        \A i \in ScopedFunctions :
            \A p \in AccessedIn(i) :
                /\ PlaceLaw(i, p)
                /\ verdict = "valid" => PlaceIn(i, p).ok

\* C28 witness: the program that reads the field y of s, of type
\* ptr(struct S), into s has been reported valid.
C28_Witness ==
    /\ pc = "done"
    /\ verdict = "valid"
    /\ prog = RuleProgram(Assign(Id("s"), Val(FieldAccess(Val(Id("s")), "y"))))
    /\ PlaceIn(1, FieldAccess(Val(Id("s")), "y")) = Ok(PtrType(StructType("S")))

(***************************************************************************)
(* The diagnostic of a function that may not return, stated under Spec.    *)
(***************************************************************************)
\* Function i is the one the run has come to: the names, main, every struct
\* and every function before it passed.
CameTo(i) ==
    /\ CheckTopLevelNames(prog).ok
    /\ CheckMain(prog).ok
    /\ \A k \in 1..Len(prog.structs) : StructResult(k).ok
    /\ \A k \in 1..(i - 1) : FunctionResult(k).ok

\* The body of function i is a non-empty list that is well typed under the
\* function's environment and does not definitely return.
MayNotReturn(i, r) ==
    /\ prog.functions[i].body.statements # <<>>
    /\ r.ok
    /\ ~r.returns

MayNotReturnMsg(i) == "function " \o prog.functions[i].name \o " may not execute a return"

\* C29: a function with valid declarations whose body is empty, or is well
\* typed and does not definitely return, is rejected with the diagnostic
\* "function <name> may not execute a return".
C29_MayNotReturnDiagnostic ==
    pc = "done" =>
        \A i \in ScopedFunctions :
            (/\ CameTo(i)
             /\ \/ prog.functions[i].body.statements = <<>>
                \/ MayNotReturn(i, CheckIn(i, prog.functions[i].body, FALSE))) =>
                verdict = "invalid" /\ msg = MayNotReturnMsg(i)

\* The half of C29 that holds: the diagnostic of a non-empty body that does
\* not definitely return; an empty body is rejected too, with a diagnostic
\* of its own.
C29_NonEmptyBody ==
    pc = "done" =>
        \A i \in ScopedFunctions :
            CameTo(i) =>
                /\ MayNotReturn(i, CheckIn(i, prog.functions[i].body, FALSE)) =>
                       verdict = "invalid" /\ msg = MayNotReturnMsg(i)
                /\ prog.functions[i].body.statements = <<>> =>
                       /\ verdict = "invalid"
                       /\ msg = "function " \o prog.functions[i].name
                                \o " has an empty body"

\* A function with a non-empty body that may not return has been rejected.
C29_Witness ==
    /\ pc = "done"
    /\ msg = "function main may not execute a return"
    /\ \E i \in ScopedFunctions :
           CameTo(i) /\ MayNotReturn(i, CheckIn(i, prog.functions[i].body, FALSE))

(***************************************************************************)
(* The order of construction and checking, stated under SpecDriver.        *)
(***************************************************************************)
Checking == {"names", "main", "structs", "functions"}

\* Until buildProgram has returned nothing is checked and nothing printed.
NothingChecked ==
    pc \in {"parse", "build"} =>
        /\ verdict = "running"
        /\ stdout = <<>>
        /\ stderr = <<>>
        /\ initial_gamma = EmptyMap
        /\ initial_delta = EmptyMap
        /\ si = 1
        /\ fi = 1

\* The step that follows the parse, for the result r of buildProgram: the
\* whole program, or the failure outcome and the end of the run.
BuildOrFail(r) ==
    IF r.ok
    THEN pc' = "names" /\ prog' = r.node /\ stdout' = <<>> /\ stderr' = <<>>
    ELSE /\ pc' = "done"
         /\ verdict' = "none"
         /\ stdout' = <<>>
         /\ Len(stderr') = 1
         /\ exitCode' = 1

BuildThenCheck ==
    /\ pc = "build" => BuildOrFail(buildProgram(doc))
    /\ pc' \in Checking => pc \in Checking \cup {"build"}
    /\ pc \in Checking => prog' = prog

\* C30: the typing rules run only on the program that buildProgram returned
\* for the whole input; while the input is parsed and built nothing is
\* checked or printed, and when a node anywhere in the input is malformed the
\* step that follows is the end of the run with one line on stderr, exit 1
\* and no verdict, whatever type errors the input contains before that node.
C30_BuildBeforeCheck == []NothingChecked /\ [][BuildThenCheck]_vars

\* C30 witness: an input whose first function is ill-typed and whose second
\* function has a statement with an unknown operator has ended with a
\* message on stderr, exit 1 and nothing on stdout.
C30_Witness ==
    /\ pc = "done"
    /\ doc = RootJson(<<MainJson(JArray(<<JString("Break")>>)),
                        MainJson(JArray(<<JObject("Return" :> JObject("BinOp" :>
                            JObject(("op" :> JString("Pow"))
                                    @@ ("left" :> JObject("Num" :> JNumber(0)))
                                    @@ ("right" :> JObject("Num" :> JNumber(0))))))>>))>>)
    /\ verdict = "none"
    /\ stdout = <<>>
    /\ Len(stderr) = 1
    /\ exitCode = 1

=============================================================================
